---- MODULE Spec2Model ----
(***************************************************************************)
(* mcp-chaos (mcp-debug): the stdio proxy, its trace recorder, the run    *)
(* journal (SQLite tables runs / trace_events), the server's notification  *)
(* endpoint and the stress runner, as state machines.                      *)
(*                                                                         *)
(*   Spec        one proxy process bridging a client and a tool server,    *)
(*               the journal it shares with the HTTP server, and the       *)
(*               server routes that touch runs (POST /runs, PATCH status,  *)
(*               POST /api/notify).                                        *)
(*   SpecStress  the stress route and the background sweeps it starts,     *)
(*               with the same journal and routes.                         *)
(*   SpecSweep   stress sweeps run to their end, under fairness.           *)
(*   SpecPure    the two outcome classifiers, applied to messages.         *)
(*   SpecFanOut  the WebSocket fan-out of the server.                      *)
(*   SpecCatalog, SpecNames  the projects router and its tables.           *)
(*   SpecFault   the proxy with a journal that rejects appends.            *)
(*   SpecSetup   proxyCommand from its start, with agent resolution.       *)
(*   SpecChaos   two ChaosInjector instances and their generator.          *)
(*   SpecMutations, SpecDiff  generateMutations and compareTraces,         *)
(*               applied to schemas and to pairs of traces.                *)
(*   SpecCleanup createRun's stale cleanup next to a recording proxy.      *)
(*   SpecProbe   sendRequest of a stress sweep: listeners, timers and the  *)
(*               replies of the tool server.                               *)
(*   SpecHold    the proxy holding requests in chaos delays, with timers   *)
(*               that fire.                                                *)
(***************************************************************************)
EXTENDS Integers, Sequences, FiniteSets, TLC

(***************************************************************************)
(* Bounds of the model.                                                    *)
(***************************************************************************)
MaxInputs == 3        \* inputs fed to the proxy and the server in one behaviour:
                      \* lines on either channel, requests to the routes
MaxStressInputs == 6  \* inputs fed to the stress runner and the server: requests
                      \* to the routes, replies and timeouts of stress requests
MaxApplied == 2       \* applications of pure functions in one behaviour
MaxFrames == 2        \* subscribe and unsubscribe frames in one behaviour
MaxSweeps == 1        \* stress sweeps started in one behaviour of SpecSweep
MaxCreates == 3       \* create requests served by the projects router
MaxQueries == 2       \* queries put to one ChaosInjector instance
MaxCalls == 2         \* calls in a trace given to the diff engine
MaxProbes == 3        \* requests one stress sweep sends
MaxReplies == 3       \* lines the tool server of the sweep writes

(***************************************************************************)
(* Values.                                                                 *)
(***************************************************************************)
Undefined == "undefined"
Conns == {"ws1", "ws2"}
NULL == "NULL"
Projects == {"p1"}
Agents == {"a1"}
Tools == {"read_file"}
RunTypes == {"proxy", "stress"}
Statuses == {"pending", "running", "completed", "failed"}

\* A JSON-RPC id is a JS value: a number or a string (or absent).
NoId == <<"undefined", 0>>
Ids == {<<"number", 1>>, <<"string", 1>>, <<"number", 2>>}

\* String(id): the number 1 and the string "1" give the same key.
String(id) == IF id[1] = "undefined" THEN Undefined
              ELSE IF id[2] = 1 THEN "1" ELSE "2"
CallIds == {String(i) : i \in Ids}

VARIABLES
  runs,          \* runs table: sequence of rows, the row's index is its id
  events,        \* trace_events table, per run id: sequence of rows in id order
  serverUp,      \* the HTTP server listens on serverUrl
  inflight,      \* notifyServer requests posted and not yet handled
  notified,      \* notification requests handled so far
  patches,       \* PATCH requests served so far
  posted,        \* POST requests served so far that create a run
  pc,            \* proxy process: "init", "spawn_error", "running", "exited"
  exitCode,      \* proxy process exit code (-1 while alive)
  runId,         \* recorder.runId (0 before the recorder exists)
  agentId,       \* recorder.agentId
  injector,      \* a ChaosInjector exists
  callCount,     \* recorder.callCount
  errorCount,    \* recorder.errorCount
  pendingCalls,  \* recorder.pendingCalls: callId -> entry
  nIn,           \* lines read from the client's stdin
  toServer,      \* lines written to the tool server's stdin, in write order
  held,          \* client lines whose handler is suspended in the chaos delay
  targetLines,   \* lines read from the tool server's stdout, in read order
  clientOut,     \* lines written to the client's stdout, in write order
  spawnFailed,   \* run ids whose tool server failed to spawn ('error' handled)
  sweeps,        \* runStressTests invocations, by run id
  resolved,      \* stress requests resolved so far, by reply or by timeout
  applied,       \* applications of the pure functions, with their results
  ws,            \* WebSocket connections: "new", "open" or "closed"
  runSubscriptions,    \* pairs <<run id, connection>>
  agentSubscriptions,  \* pairs <<agent id, connection>>
  globalSubscriptions, \* connections
  sent,          \* per connection: the frames the server sent to it, in order
  frames,        \* subscribe and unsubscribe frames handled so far
  projects,      \* projects table: rows [id, name]
  agents,        \* agents table: rows [id, project_id, name]
  formerRuns,    \* history: ids of the runs whose agent's project was deleted
  reply,         \* reply to the last create request the projects router served
  rejected,      \* appends the journal has rejected (insertTraceEvent threw)
  injectors,     \* ChaosInjector instances: config, seed, rng state, answers
  wire           \* sendRequest of one stress sweep: ids, listeners, timers

journalVars == <<runs, events, serverUp, inflight, notified, patches, posted>>
proxyVars == <<pc, exitCode, runId, agentId, injector, callCount, errorCount,
               pendingCalls, nIn, toServer, held, targetLines, clientOut>>
vars == <<runs, events, serverUp, inflight, notified, patches, posted, pc,
          exitCode, runId, agentId, injector, callCount, errorCount,
          pendingCalls, nIn,
          toServer, held, targetLines, clientOut, spawnFailed, sweeps,
          resolved, applied, ws, runSubscriptions, agentSubscriptions,
          globalSubscriptions, sent, frames, projects, agents, formerRuns,
          reply, rejected, injectors, wire>>
stressVars == <<sweeps, resolved>>
subscriptionVars ==
  <<ws, runSubscriptions, agentSubscriptions, globalSubscriptions, frames>>
fanVars == <<subscriptionVars, sent>>
catalogVars == <<projects, agents, formerRuns, reply>>
faultVars == <<rejected, injectors, wire>>
programVars == <<journalVars, proxyVars, spawnFailed, stressVars, fanVars,
                 catalogVars, faultVars>>

(***************************************************************************)
(* Trace events.  Every event is a record of one shape; a field an event   *)
(* kind does not carry is Undefined (-1 for numbers).                      *)
(***************************************************************************)
Event(t, ts) ==
  [id |-> NoId,
   t |-> t,
   ts |-> ts,
   callId |-> Undefined,
   method |-> Undefined,
   tool |-> Undefined,
   ok |-> Undefined,
   latencyMs |-> -1,
   totalCalls |-> -1,
   totalErrors |-> -1,
   chaosSeed |-> FALSE,
   chaosDelayMs |-> -1,
   outcome |-> Undefined,
   error |-> Undefined]

NoEvent == Event("none", 0)

\* The proxy's wall clock, counted in lines handled so far.
Now == nIn + Len(targetLines)

\* Inputs fed so far: lines read by the proxy and requests served by the routes.
Inputs == Now + notified + posted

\* Inputs fed so far to the stress runner and the routes.
StressInputs == posted + patches + resolved

(***************************************************************************)
(* Journal store (RunQueries).                                             *)
(***************************************************************************)
OrNull(x) == IF x = Undefined THEN NULL ELSE x

CountType(evs, t) == Cardinality({i \in DOMAIN evs : evs[i].t = t})

\* Mutant: the WHERE clause without the run type.
IsStaleOfAnyType(row, agent, runType) ==
  /\ row.agent_id = agent
  /\ row.status = "running"

\* cleanupStaleRuns: both UPDATE statements share one WHERE clause.
IsStale(row, agent, runType) ==
  /\ row.agent_id = agent
  /\ row.status = "running"
  /\ row.run_type = runType

CleanupStaleRuns(rs, evs, agent, runType) ==
  IF agent = Undefined THEN rs
  ELSE [i \in DOMAIN rs |->
          IF IsStale(rs[i], agent, runType)
          THEN [rs[i] EXCEPT !.total_calls = CountType(evs[i], "tool_call"),
                             !.status = "completed",
                             !.ended_at = "ts"]
          ELSE rs[i]]

NewRun(agent, runType) ==
  [agent_id |-> OrNull(agent),
   status |-> "pending",
   run_type |-> runType,
   total_calls |-> 0,
   ended_at |-> NULL,
   started_at |-> NULL,
   total_errors |-> 0,
   stress_passed |-> 0,
   stress_graceful |-> 0,
   stress_crashed |-> 0,
   stress_score |-> 0]

\* createRun: stale cleanup, then INSERT; the new row's id is Len(result).
CreateRun(rs, evs, agent, runType) ==
  Append(CleanupStaleRuns(rs, evs, agent, runType), NewRun(agent, runType))

\* updateRunStatus: one UPDATE ... WHERE id = ?; stats fields are optional.
UpdateRunStatus(rs, id, status, totalCalls, totalErrors) ==
  [i \in DOMAIN rs |->
     IF i # id THEN rs[i]
     ELSE [rs[i] EXCEPT
             !.status = status,
             !.started_at = IF status = "running" THEN "ts" ELSE @,
             !.ended_at = IF status \in {"completed", "failed"} THEN "ts" ELSE @,
             !.total_calls = IF totalCalls # -1 THEN totalCalls ELSE @,
             !.total_errors = IF totalErrors # -1 THEN totalErrors ELSE @]]

\* insertTraceEvent: INSERT with an autoincrement id, so rows stay in
\* insertion order.
InsertTraceEvent(evs, id, event) ==
  [evs EXCEPT ![id] = Append(@, event)]

RECURSIVE InsertAll(_, _, _)
InsertAll(evs, id, seq) ==
  IF seq = <<>> THEN evs
  ELSE InsertAll(InsertTraceEvent(evs, id, Head(seq)), id, Tail(seq))

(***************************************************************************)
(* notifyServer: an un-awaited POST to /api/notify.  A request that cannot *)
(* be delivered (server down, connection refused) is dropped silently.     *)
(***************************************************************************)
Notification(type, id, agent, event) ==
  [runId |-> id,
   agentId |-> agent,
   event |-> event,
   type |-> type]

NotifyServer(inf, n) ==
  IF serverUp THEN inf \cup {n} ELSE inf

RECURSIVE NotifyAll(_, _, _, _)
NotifyAll(inf, id, agent, seq) ==
  IF seq = <<>> THEN inf
  ELSE NotifyAll(NotifyServer(inf, Notification("event", id, agent, Head(seq))),
                 id, agent, Tail(seq))

(***************************************************************************)
(* TraceRecorder.                                                          *)
(***************************************************************************)
NoEntry == [tool |-> Undefined,
            present |-> FALSE,
            startTime |-> 0]

\* Mutant: the tool_call event left to a later tick.
RequestEventsRpcOnly(id, method, name, ts) ==
  <<[Event("rpc_request", ts) EXCEPT !.id = id, !.method = method]>>

\* recordRpcRequest: the events it writes, in order.
RequestEvents(id, method, name, ts) ==
  <<[Event("rpc_request", ts) EXCEPT !.id = id, !.method = method]>>
  \o (IF id # NoId /\ method = "tools/call" /\ name # Undefined
      THEN <<[Event("tool_call", ts) EXCEPT !.tool = name, !.callId = String(id)]>>
      ELSE <<>>)

\* Mutant: an entry already in the table is kept.
RequestPendingKeepsFirst(pend, id, method, name, now) ==
  IF id = NoId \/ pend[String(id)].present THEN pend
  ELSE [pend EXCEPT ![String(id)] =
          [tool |-> IF method = "tools/call" THEN name ELSE Undefined,
           present |-> TRUE,
           startTime |-> now]]

\* recordRpcRequest: pendingCalls afterwards.
RequestPending(pend, id, method, name, now) ==
  IF id = NoId THEN pend
  ELSE [pend EXCEPT ![String(id)] =
          [tool |-> IF method = "tools/call" THEN name ELSE Undefined,
           present |-> TRUE,
           startTime |-> now]]

\* recordRpcResponse: the pending entry the reply is matched with.
Matched(pend, id) ==
  IF id = NoId THEN NoEntry ELSE pend[String(id)]

\* Mutant: a tool_result for every matched reply, tool call or not.
EmitsToolResultForAnyMatch(entry) == entry.present

\* recordRpcResponse: a tool_result is emitted for a matched tool call only.
EmitsToolResult(entry) == entry.present /\ entry.tool # Undefined

\* Mutant: the rpc_response written inside the if (pending) block.
ResponseEventsWhenPending(pend, id, isError, chaos, ts, now) ==
  LET entry == Matched(pend, id)
      latency == IF entry.present THEN now - entry.startTime ELSE -1
  IN IF ~entry.present THEN <<>>
     ELSE (IF EmitsToolResult(entry)
           THEN <<[Event("tool_result", ts) EXCEPT
                     !.callId = String(id),
                     !.ok = IF isError THEN "false" ELSE "true",
                     !.latencyMs = latency, !.chaosSeed = chaos]>>
           ELSE <<>>)
          \o <<[Event("rpc_response", ts) EXCEPT
                  !.id = id, !.latencyMs = latency]>>

\* recordRpcResponse: the events it writes, in order.
ResponseEvents(pend, id, isError, chaos, ts, now) ==
  LET entry == Matched(pend, id)
      latency == IF entry.present THEN now - entry.startTime ELSE -1
  IN (IF EmitsToolResult(entry)
      THEN <<[Event("tool_result", ts) EXCEPT
                !.callId = String(id), !.ok = IF isError THEN "false" ELSE "true",
                !.latencyMs = latency, !.chaosSeed = chaos]>>
      ELSE <<>>)
     \o <<[Event("rpc_response", ts) EXCEPT !.id = id, !.latencyMs = latency]>>

\* recordRpcResponse: pendingCalls afterwards.
ResponsePending(pend, id) ==
  IF id # NoId /\ pend[String(id)].present
  THEN [pend EXCEPT ![String(id)] = NoEntry]
  ELSE pend

\* TraceRecorder.writeEvent, for each event of seq in turn: the INSERT, then
\* the notification.
WriteEvents(seq) ==
  /\ events' = InsertAll(events, runId, seq)
  /\ inflight' = NotifyAll(inflight, runId, agentId, seq)

(***************************************************************************)
(* Lines on the two channels.  n is the line's position in its input;      *)
(* delayMs is the chaos delay its handler took before writing it on.       *)
(***************************************************************************)
Line(n, json, id, method, name, isError) ==
  [id |-> id,
   method |-> method,
   n |-> n,
   name |-> name,
   isError |-> isError,
   json |-> json,
   delayMs |-> 0]

\* What a client may write: text that is not JSON, tools/call requests, a
\* request and a notification of another method, and a reply to a server
\* request (no method).
ClientLines(n) ==
  {Line(n, FALSE, NoId, Undefined, Undefined, FALSE)}
  \cup {Line(n, TRUE, i, "tools/call", t, FALSE) :
          i \in {<<"number", 1>>, <<"string", 1>>}, t \in Tools}
  \cup {Line(n, TRUE, i, "tools/list", Undefined, FALSE) :
          i \in {NoId, <<"number", 1>>}}
  \cup {Line(n, TRUE, <<"number", 1>>, Undefined, Undefined, FALSE)}

\* What a tool server may write: text that is not JSON, replies (result or
\* error) with any id, and objects without id.
ServerLines(n) ==
  {Line(n, FALSE, NoId, Undefined, Undefined, FALSE)}
  \cup {Line(n, TRUE, i, Undefined, Undefined, FALSE) :
          i \in {NoId, <<"number", 1>>, <<"number", 2>>}}
  \cup {Line(n, TRUE, <<"string", 1>>, Undefined, Undefined, TRUE)}

(***************************************************************************)
(* The proxy process (proxyCommand).                                       *)
(***************************************************************************)
Exit(code) ==
  /\ pc' = "exited"
  /\ exitCode' = code

\* new TraceRecorder(...), new ChaosInjector(...) and spawn(...), the end of
\* proxyCommand.  A failed spawn is reported by an 'error' event on a later
\* tick.
Start(agent, inj, spawned) ==
  /\ LET id == Len(runs) + 1
         start == Event("session_start", 0)
     IN /\ runs' = UpdateRunStatus(CreateRun(runs, events, agent, "proxy"),
                                   id, "running", -1, -1)
        /\ events' = InsertTraceEvent(Append(events, <<>>), id, start)
        /\ inflight' =
             NotifyServer(
               NotifyServer(inflight,
                            Notification("run_created", id, agent, NoEvent)),
               Notification("event", id, agent, start))
        /\ runId' = id
  /\ agentId' = agent
  /\ injector' = inj
  /\ pc' = IF spawned THEN "running" ELSE "spawn_error"

\* proxyCommand started with --target alone, or with --agent naming an
\* agent that exists and no --inject file.
ProxyStart(agent, inj, spawned) ==
  /\ pc = "init"
  /\ Start(agent, inj, spawned)
  /\ UNCHANGED <<serverUp, notified, patches, posted, exitCode, callCount,
                 errorCount, pendingCalls, nIn, toServer, held, targetLines, clientOut,
                 spawnFailed, stressVars, applied, fanVars, catalogVars,
                 faultVars>>

\* targetProcess.on('error'): log and process.exit(1).
ProxySpawnError ==
  /\ pc = "spawn_error"
  /\ Exit(1)
  /\ spawnFailed' = spawnFailed \cup {runId}
  /\ UNCHANGED <<journalVars, runId, agentId, injector, callCount, errorCount,
                 pendingCalls, nIn, toServer, held, targetLines, clientOut,
                 stressVars, applied, fanVars, catalogVars,
                 faultVars>>

\* Mutant: the delay taken before the line is parsed.
DelayedBeforeParse(line, delay) == injector /\ delay > 0

\* The stdin handler holds a line in the chaos delay when an injector exists,
\* the method is tools/call and getDelay returned a positive number.
Delayed(line, delay) ==
  injector /\ line.json /\ line.method = "tools/call" /\ delay > 0

\* stdinReader.on('line'), up to its await or its end.  delay is what
\* injector.getDelay(toolName) returns for this line.
OnStdinLine(line, delay) ==
  /\ pc = "running"
  /\ Inputs < MaxInputs
  /\ nIn' = nIn + 1
  /\ IF line.json /\ line.method # Undefined
     THEN /\ WriteEvents(RequestEvents(line.id, line.method, line.name, Now + 1))
          /\ pendingCalls' = RequestPending(pendingCalls, line.id, line.method,
                                            line.name, Now + 1)
     ELSE UNCHANGED <<events, inflight, pendingCalls>>
  /\ IF Delayed(line, delay)
     THEN held' = held \cup {[line EXCEPT !.delayMs = delay]} /\ UNCHANGED toServer
     ELSE toServer' = Append(toServer, line) /\ UNCHANGED held
  /\ UNCHANGED <<runs, serverUp, notified, patches, posted, pc, exitCode,
                 runId, agentId, injector, callCount, errorCount, targetLines, clientOut,
                 spawnFailed, stressVars, applied, fanVars, catalogVars,
                 faultVars>>

\* The delay's timer fires: the suspended handler resumes and writes its line.
DelayElapsed(line) ==
  /\ pc = "running"
  /\ line \in held
  /\ held' = held \ {line}
  /\ toServer' = Append(toServer, line)
  /\ UNCHANGED <<journalVars, pc, exitCode, runId, agentId, injector,
                 callCount, errorCount, pendingCalls, nIn, targetLines,
                 clientOut, spawnFailed, stressVars, applied, fanVars,
                 catalogVars,
                 faultVars>>

\* Mutant: the write moved into the try block's JSON branch.
ForwardParsedOnly(out, line) == IF line.json THEN Append(out, line) ELSE out

\* process.stdout.write(line + '\n') at the end of the targetReader handler.
ForwardToClient(out, line) == Append(out, line)

\* targetReader.on('line').
OnTargetLine(line) ==
  /\ pc = "running"
  /\ Inputs < MaxInputs
  /\ targetLines' = Append(targetLines, line)
  /\ IF line.json /\ line.id # NoId
     THEN LET entry == Matched(pendingCalls, line.id)
          IN /\ WriteEvents(ResponseEvents(pendingCalls, line.id, line.isError,
                                           injector, Now + 1, Now + 1))
             /\ pendingCalls' = ResponsePending(pendingCalls, line.id)
             /\ callCount' = IF EmitsToolResult(entry)
                             THEN callCount + 1 ELSE callCount
             /\ errorCount' = IF EmitsToolResult(entry) /\ line.isError
                              THEN errorCount + 1 ELSE errorCount
     ELSE UNCHANGED <<events, inflight, pendingCalls, callCount, errorCount>>
  /\ clientOut' = ForwardToClient(clientOut, line)
  /\ UNCHANGED <<runs, serverUp, notified, patches, posted, pc, exitCode,
                 runId, agentId, injector, nIn, toServer, held, spawnFailed, stressVars,
                 applied, fanVars, catalogVars,
                 faultVars>>

\* TraceRecorder.end followed by process.exit: the session_end row, the
\* status update.  The two notifications end() posts are requests not yet
\* dispatched when the process exits in the same tick; they are never sent.
End ==
  /\ events' = InsertTraceEvent(events, runId,
                 [Event("session_end", Now) EXCEPT !.totalCalls = callCount,
                                                   !.totalErrors = errorCount])
  /\ runs' = UpdateRunStatus(runs, runId, "completed", callCount, errorCount)

\* cleanup(): SIGINT, SIGTERM or the client closing stdin.
ProxyCleanup ==
  /\ pc = "running"
  /\ End
  /\ Exit(0)
  /\ UNCHANGED <<serverUp, inflight, notified, patches, posted, runId,
                 agentId, injector, callCount, errorCount, pendingCalls, nIn, toServer, held,
                 targetLines, clientOut, spawnFailed, stressVars, applied, fanVars,
                 catalogVars,
                 faultVars>>

\* targetProcess.on('close'): end() and process.exit(code ?? 0).
ProxyTargetClose(code) ==
  /\ pc = "running"
  /\ End
  /\ Exit(code)
  /\ UNCHANGED <<serverUp, inflight, notified, patches, posted, runId,
                 agentId, injector, callCount, errorCount, pendingCalls, nIn, toServer, held,
                 targetLines, clientOut, spawnFailed, stressVars, applied, fanVars,
                 catalogVars,
                 faultVars>>

(***************************************************************************)
(* The proxy when the journal rejects an append: insertTraceEvent (or      *)
(* appendFileSync) throws inside writeEvent.  k is the position, among the *)
(* writes of the handler, of the write that throws.                        *)
(***************************************************************************)
\* The writes that succeeded before the k-th one threw.
WriteEventsBefore(seq, k) == WriteEvents(SubSeq(seq, 1, k - 1))

\* stdinReader.on('line') when a write of recordRpcRequest throws: the
\* handler's catch takes the exception for a parse failure and writes the
\* line to the tool server at once.  The entry is in pendingCalls, with its
\* tool name, before the tool_call write.
OnStdinLineRejected(line, k) ==
  /\ pc = "running"
  /\ Inputs < MaxInputs
  /\ line.json /\ line.method # Undefined
  /\ k \in 1..Len(RequestEvents(line.id, line.method, line.name, Now + 1))
  /\ nIn' = nIn + 1
  /\ WriteEventsBefore(RequestEvents(line.id, line.method, line.name, Now + 1), k)
  /\ pendingCalls' = IF k = 1 THEN pendingCalls
                     ELSE RequestPending(pendingCalls, line.id, line.method,
                                         line.name, Now + 1)
  /\ toServer' = Append(toServer, line)
  /\ rejected' = rejected + 1
  /\ UNCHANGED <<runs, serverUp, notified, patches, posted, pc, exitCode,
                 runId, agentId, injector, callCount, errorCount, held,
                 targetLines, clientOut, spawnFailed, stressVars, applied,
                 fanVars, catalogVars, injectors, wire>>

\* targetReader.on('line') when a write of recordRpcResponse throws: the
\* empty catch drops the exception and the line is written to the client.
\* The counters are incremented before the tool_result write; the entry is
\* deleted after it and before the rpc_response write.
OnTargetLineRejected(line, k) ==
  /\ pc = "running"
  /\ Inputs < MaxInputs
  /\ line.json /\ line.id # NoId
  /\ LET entry == Matched(pendingCalls, line.id)
         seq == ResponseEvents(pendingCalls, line.id, line.isError, injector,
                               Now + 1, Now + 1)
     IN /\ k \in 1..Len(seq)
        /\ WriteEventsBefore(seq, k)
        /\ pendingCalls' = IF EmitsToolResult(entry) /\ k = 1
                           THEN pendingCalls
                           ELSE ResponsePending(pendingCalls, line.id)
        /\ callCount' = IF EmitsToolResult(entry)
                        THEN callCount + 1 ELSE callCount
        /\ errorCount' = IF EmitsToolResult(entry) /\ line.isError
                         THEN errorCount + 1 ELSE errorCount
  /\ targetLines' = Append(targetLines, line)
  /\ clientOut' = ForwardToClient(clientOut, line)
  /\ rejected' = rejected + 1
  /\ UNCHANGED <<runs, serverUp, notified, patches, posted, pc, exitCode,
                 runId, agentId, injector, nIn, toServer, held, spawnFailed,
                 stressVars, applied, fanVars, catalogVars, injectors, wire>>

\* cleanup() or the 'close' handler when the session_end write throws:
\* nothing catches the exception, the status update is not reached and the
\* process dies of the uncaught exception (exit code 1).
ProxyEndRejected ==
  /\ pc = "running"
  /\ Exit(1)
  /\ rejected' = rejected + 1
  /\ UNCHANGED <<journalVars, runId, agentId, injector, callCount, errorCount,
                 pendingCalls, nIn, toServer, held, targetLines, clientOut,
                 spawnFailed, stressVars, applied, fanVars, catalogVars, injectors, wire>>

(***************************************************************************)
(* Fan-out: the server's subscription tables and its broadcasts.           *)
(***************************************************************************)
\* client.send(data) for each client of the set whose readyState is OPEN.
SendAll(s, clients, message) ==
  [c \in Conns |->
     IF c \in clients /\ ws[c] = "open" THEN Append(s[c], message) ELSE s[c]]

broadcastToRun(s, id, message) ==
  SendAll(s, {c \in Conns : <<id, c>> \in runSubscriptions}, message)

\* The caller's guard if (agentId) is included: an absent agent id reaches
\* no one.
broadcastToAgent(s, agent, message) ==
  IF agent = Undefined THEN s
  ELSE SendAll(s, {c \in Conns : <<agent, c>> \in agentSubscriptions}, message)

broadcastGlobal(s, message) == SendAll(s, globalSubscriptions, message)

\* Subscribe and unsubscribe frames name their topic by runId, agentId or
\* global; runId 0 and agentId Undefined stand for an absent field.
Frame(type, id, agent, global) ==
  [runId |-> id,
   agentId |-> agent,
   type |-> type,
   global |-> global]

Topics ==
  {Frame("", id, Undefined, FALSE) : id \in {1, 2}}
  \cup {Frame("", 0, a, FALSE) : a \in Agents}
  \cup {Frame("", 0, Undefined, TRUE)}
  \cup {Frame("", 1, a, TRUE) : a \in Agents}

\* The acknowledgement the handler sends back.
Ack(type, frame) ==
  Notification(type,
               frame.runId,
               IF frame.runId = 0 THEN frame.agentId ELSE Undefined,
               NoEvent)

\* wss.on('connection').
WsConnect(c) ==
  /\ serverUp
  /\ ws[c] = "new"
  /\ ws' = [ws EXCEPT ![c] = "open"]
  /\ UNCHANGED <<journalVars, proxyVars, spawnFailed, stressVars, applied,
                 runSubscriptions, agentSubscriptions, globalSubscriptions,
                 sent, frames, catalogVars,
                 faultVars>>

\* ws.on('message') for a subscribe or an unsubscribe frame: the first of
\* runId, agentId, global that is present names the topic.
OnWsMessage(c, frame) ==
  /\ ws[c] = "open"
  /\ frames < MaxFrames
  /\ frames' = frames + 1
  /\ LET add == frame.type = "subscribe"
         Change(set, x) == IF add THEN set \cup {x} ELSE set \ {x}
     IN IF frame.runId # 0
        THEN /\ runSubscriptions' = Change(runSubscriptions, <<frame.runId, c>>)
             /\ UNCHANGED <<agentSubscriptions, globalSubscriptions>>
        ELSE IF frame.agentId # Undefined
        THEN /\ agentSubscriptions' =
                  Change(agentSubscriptions, <<frame.agentId, c>>)
             /\ UNCHANGED <<runSubscriptions, globalSubscriptions>>
        ELSE IF frame.global
        THEN /\ globalSubscriptions' = Change(globalSubscriptions, c)
             /\ UNCHANGED <<runSubscriptions, agentSubscriptions>>
        ELSE UNCHANGED <<runSubscriptions, agentSubscriptions,
                         globalSubscriptions>>
  /\ sent' = IF frame.runId # 0 \/ frame.agentId # Undefined \/ frame.global
             THEN [sent EXCEPT ![c] = Append(@,
                     Ack(IF frame.type = "subscribe" THEN "subscribed"
                         ELSE "unsubscribed", frame))]
             ELSE sent
  /\ UNCHANGED <<journalVars, proxyVars, spawnFailed, stressVars, applied, ws,
                 catalogVars,
                 faultVars>>

\* ws.on('close'): the connection leaves every subscription table.
WsClose(c) ==
  /\ ws[c] = "open"
  /\ ws' = [ws EXCEPT ![c] = "closed"]
  /\ runSubscriptions' = {p \in runSubscriptions : p[2] # c}
  /\ agentSubscriptions' = {p \in agentSubscriptions : p[2] # c}
  /\ globalSubscriptions' = globalSubscriptions \ {c}
  /\ UNCHANGED <<journalVars, proxyVars, spawnFailed, stressVars, applied,
                 sent, frames, catalogVars,
                 faultVars>>

(***************************************************************************)
(* Server routes on the shared journal.                                    *)
(***************************************************************************)
\* POST /api/runs: createRun(target, chaosProfile, name); the body's name is
\* passed where createRun takes the agent id, and the run type defaults to
\* 'proxy'.
PostRun(name) ==
  /\ serverUp
  /\ Inputs < MaxInputs
  /\ posted' = posted + 1
  /\ runs' = CreateRun(runs, events, name, "proxy")
  /\ events' = Append(events, <<>>)
  /\ UNCHANGED <<serverUp, inflight, notified, patches, proxyVars,
                 spawnFailed, stressVars, applied, fanVars, catalogVars,
                 faultVars>>

\* PATCH /api/runs/:id/status.
PatchStatus(id, status, totalCalls, totalErrors) ==
  /\ serverUp
  /\ StressInputs < MaxStressInputs
  /\ id \in DOMAIN runs
  /\ patches' = patches + 1
  /\ runs' = UpdateRunStatus(runs, id, status, totalCalls, totalErrors)
  /\ UNCHANGED <<events, serverUp, inflight, notified, posted, proxyVars,
                 spawnFailed, stressVars, applied, fanVars, catalogVars,
                 faultVars>>

\* POST /api/notify: an 'event' notification is inserted into trace_events
\* (then broadcast).
Notify(n) ==
  /\ serverUp
  /\ n \in inflight
  /\ Inputs < MaxInputs
  /\ notified' = notified + 1
  /\ inflight' = inflight \ {n}
  /\ IF n.type = "event" /\ n.runId \notin DOMAIN events
     THEN UNCHANGED <<events, sent>>   \* the INSERT throws: 500, no fan-out
     ELSE /\ events' = IF n.type = "event"
                       THEN InsertTraceEvent(events, n.runId, n.event)
                       ELSE events
          /\ sent' = broadcastGlobal(
                       broadcastToAgent(
                         broadcastToRun(sent, n.runId, n), n.agentId, n), n)
  /\ UNCHANGED <<runs, serverUp, patches, posted, proxyVars, spawnFailed,
                 stressVars, applied, subscriptionVars, catalogVars,
                 faultVars>>

\* Row ids are UUIDs; a new row takes an id no row of its table has.
ProjectIds == {"p1", "p2"}
AgentPool == {"a1", "a2"}
ProjectNames == {"demo", "other"}
AgentNames == {"fs", "web"}

NewProjectId(ps) == CHOOSE i \in ProjectIds : i \notin {q.id : q \in ps}
NewAgentId(as) == CHOOSE i \in AgentPool : i \notin {a.id : a \in as}

\* Mutant: the lookup compares the id column.
getProjectByNameOnId(ps, name) == {q \in ps : q.id = name}

getProjectByName(ps, name) == {q \in ps : q.name = name}

getAgentByName(as, project, name) ==
  {a \in as : a.project_id = project /\ a.name = name}

\* The constraints of the schema an INSERT must meet: UNIQUE on
\* projects.name; UNIQUE(project_id, name) and the foreign key on agents.
ProjectInsertable(ps, name) == \A q \in ps : q.name # name
AgentInsertable(ps, as, project, name) ==
  /\ project \in {q.id : q \in ps}
  /\ \A a \in as : ~(a.project_id = project /\ a.name = name)

\* createProject, createAgent: the INSERT, for a row that meets the
\* constraints.
createProject(ps, name) == ps \cup {[id |-> NewProjectId(ps), name |-> name]}
createAgent(as, project, name) ==
  as \cup {[id |-> NewAgentId(as),
            name |-> name,
            project_id |-> project]}

\* The reply to a create request: the operation, its arguments, the HTTP
\* status, and the request's number.
Reply(op, project, name, code) ==
  [n |-> 0,
   name |-> name,
   code |-> code,
   project |-> project,
   op |-> op]

NoReply == Reply("none", Undefined, Undefined, 0)

Respond(op, project, name, code) ==
  reply' = [Reply(op, project, name, code) EXCEPT !.n = reply.n + 1]

\* POST /api/projects: 409 when the name is taken; an INSERT the store
\* rejects is caught and answered with 500.
PostProject(name) ==
  /\ serverUp
  /\ reply.n < MaxCreates
  /\ getProjectByName(projects, name) # {} \/ {q.id : q \in projects} # ProjectIds
  /\ IF getProjectByName(projects, name) # {}
     THEN Respond("create_project", Undefined, name, 409) /\ UNCHANGED projects
     ELSE IF ~ProjectInsertable(projects, name)
     THEN Respond("create_project", Undefined, name, 500) /\ UNCHANGED projects
     ELSE /\ projects' = createProject(projects, name)
          /\ Respond("create_project", Undefined, name, 201)
  /\ UNCHANGED <<journalVars, proxyVars, spawnFailed, stressVars, applied,
                 fanVars, agents, formerRuns, faultVars>>

\* POST /api/projects/:id/agents: 404 without the project, 409 when the
\* name is taken in the project.
PostAgent(project, name) ==
  /\ serverUp
  /\ reply.n < MaxCreates
  /\ \/ getAgentByName(agents, project, name) # {}
     \/ {a.id : a \in agents} # AgentPool
  /\ IF project \notin {q.id : q \in projects}
     THEN Respond("create_agent", project, name, 404) /\ UNCHANGED agents
     ELSE IF getAgentByName(agents, project, name) # {}
     THEN Respond("create_agent", project, name, 409) /\ UNCHANGED agents
     ELSE IF ~AgentInsertable(projects, agents, project, name)
     THEN Respond("create_agent", project, name, 500) /\ UNCHANGED agents
     ELSE /\ agents' = createAgent(agents, project, name)
          /\ Respond("create_agent", project, name, 201)
  /\ UNCHANGED <<journalVars, proxyVars, spawnFailed, stressVars, applied,
                 fanVars, projects, formerRuns, faultVars>>

\* DELETE /api/projects/:id: deleteProject is one DELETE on projects; the
\* schema's foreign keys do the rest: agents go with their project (ON
\* DELETE CASCADE) and runs.agent_id of their runs is set to NULL (ON
\* DELETE SET NULL).  No foreign key leads from a project to runs or events.
DeleteProject(p) ==
  /\ serverUp
  /\ p \in {q.id : q \in projects}
  /\ projects' = {q \in projects : q.id # p}
  /\ LET gone == {a.id : a \in {b \in agents : b.project_id = p}}
     IN /\ agents' = {a \in agents : a.project_id # p}
        /\ runs' = [i \in DOMAIN runs |->
                      IF runs[i].agent_id \in gone
                      THEN [runs[i] EXCEPT !.agent_id = NULL]
                      ELSE runs[i]]
        /\ formerRuns' = formerRuns
                           \cup {i \in DOMAIN runs : runs[i].agent_id \in gone}
  /\ UNCHANGED <<events, serverUp, inflight, notified, patches, posted,
                 proxyVars, spawnFailed, stressVars, applied, fanVars,
                 reply, faultVars>>

\* proxyCommand from its first line: agent resolution (with the project and
\* the agent created when --project and --name name none that exists), the
\* --inject file, then the recorder and the spawn.  agent is the --agent
\* option, project and name the --project and --name options, inject says
\* whether --inject is absent ("none"), loads ("ok") or fails to load or
\* parse ("bad").
ProxyCommand(agent, project, name, inject, spawned) ==
  LET auto == agent = Undefined /\ project # Undefined /\ name # Undefined
      foundProject == getProjectByName(projects, project)
      ps == IF auto /\ foundProject = {}
            THEN createProject(projects, project) ELSE projects
      proj == IF foundProject # {} THEN CHOOSE q \in foundProject : TRUE
              ELSE CHOOSE q \in ps \ projects : TRUE
      foundAgent == getAgentByName(agents, proj.id, name)
      as == IF auto /\ foundAgent = {}
            THEN createAgent(agents, proj.id, name) ELSE agents
      agentDbId == IF agent # Undefined THEN agent
                   ELSE IF ~auto THEN Undefined
                   ELSE IF foundAgent # {}
                   THEN (CHOOSE a \in foundAgent : TRUE).id
                   ELSE (CHOOSE a \in as \ agents : TRUE).id
      \* an INSERT the store rejects throws out of proxyCommand
      thrown == /\ auto
                /\ \/ foundProject = {} /\ ~ProjectInsertable(projects, project)
                   \/ /\ foundProject # {} \/ ProjectInsertable(projects, project)
                      /\ foundAgent = {}
                      /\ ~AgentInsertable(ps, agents, proj.id, name)
  IN /\ pc = "init"
     /\ auto => \/ foundProject # {}
                \/ {q.id : q \in projects} # ProjectIds
     /\ auto => {a.id : a \in agents} # AgentPool
     /\ IF (agent # Undefined /\ agent \notin {a.id : a \in agents}) \/ thrown
        THEN /\ Exit(1)
             /\ UNCHANGED <<runs, events, inflight, runId, agentId, injector,
                            projects, agents>>
        ELSE IF inject = "bad"
        THEN /\ projects' = ps
             /\ agents' = as
             /\ Exit(1)
             /\ UNCHANGED <<runs, events, inflight, runId, agentId, injector>>
        ELSE /\ projects' = ps
             /\ agents' = as
             /\ Start(agentDbId, inject = "ok", spawned)
             /\ UNCHANGED exitCode
     /\ UNCHANGED <<serverUp, notified, patches, posted, callCount,
                    errorCount, pendingCalls, nIn, toServer, held, targetLines,
                    clientOut, spawnFailed, stressVars, applied, fanVars,
                    formerRuns, reply, faultVars>>

(***************************************************************************)
(* Chaos injector (SeededRandom, ChaosInjector).  A 32-bit word is a pair  *)
(* <<high half, low half>> of 16-bit numbers, so that no intermediate      *)
(* value leaves the range of the checker's integers.                       *)
(***************************************************************************)
Half == 65536

RECURSIVE Xor(_, _)
Xor(a, b) ==
  IF a = 0 THEN b
  ELSE IF b = 0 THEN a
  ELSE 2 * Xor(a \div 2, b \div 2) + ((a + b) % 2)

RECURSIVE Or(_, _)
Or(a, b) ==
  IF a = 0 THEN b
  ELSE IF b = 0 THEN a
  ELSE 2 * Or(a \div 2, b \div 2) + (IF a % 2 = 1 \/ b % 2 = 1 THEN 1 ELSE 0)

\* The value of a local: the element of a singleton.  A local bound as
\* v \in {e} is computed once, the way a let or a const of the source is.
The(S) == CHOOSE v \in S : TRUE

\* x ^ y, x | c for c below 2^16, x >>> n for 0 < n < 16, x + y modulo 2^32.
XorW(x, y) ==
  The({<<Xor(a[1], b[1]), Xor(a[2], b[2])>> : a \in {x}, b \in {y}})
OrLow(x, c) == The({<<a[1], Or(a[2], c)>> : a \in {x}})
Shr(x, n) ==
  The({<<a[1] \div d, (a[1] % d) * (Half \div d) + a[2] \div d>> :
         a \in {x}, d \in {2 ^ n}})
AddW(x, y) ==
  The({The({<<(a[1] + b[1] + lo \div Half) % Half, lo % Half>> :
              lo \in {a[2] + b[2]}}) : a \in {x}, b \in {y}})

\* The product of two 16-bit numbers as a word.
Mul16(a, b) ==
  The({The({<<p1 \div 256 + low \div Half, low % Half>> :
              low \in {p0 + (p1 % 256) * 256}}) :
         p0 \in {(a % 256) * b}, p1 \in {(a \div 256) * b}})

\* Math.imul: the low 32 bits of the product.
Imul(x, y) ==
  The({The({<<(ll[1] + cross) % Half, ll[2]>> :
              ll \in {Mul16(a[2], b[2])},
              cross \in {Mul16(a[1], b[2])[2] + Mul16(a[2], b[1])[2]}}) :
         a \in {x}, b \in {y}})

\* 0x6d2b79f5
Increment == <<27947, 31221>>

\* SeededRandom.next: the new state and the 32-bit numerator of the result
\* (the result is numerator / 2^32).  The state is kept modulo 2^32: every
\* use of it in next() is a 32-bit operation.
SeededRandom_next(state) ==
  The({The({The({[state |-> t0, value |-> XorW(t2, Shr(t2, 14))] :
                   t2 \in {XorW(t1, AddW(t1, Imul(XorW(t1, Shr(t1, 7)),
                                                 OrLow(t1, 61))))}}) :
              t1 \in {Imul(XorW(t0, Shr(t0, 15)), OrLow(t0, 1))}}) :
         t0 \in {AddW(state, Increment)}})

\* A ProbabilisticValue, a plain number or an absent value.  p and failRate
\* are numerators over 65536.
NoValue == [p |-> 0,
            value |-> -1,
            kind |-> "undefined",
            min |-> -1,
            max |-> -1]
Fixed(v) == [NoValue EXCEPT !.kind = "number", !.value = v]
Between(p, min, max) ==
  [NoValue EXCEPT !.kind = "probabilistic", !.p = p, !.min = min, !.max = max]

\* A ChaosRule; failRate -1 and corruptResponse Undefined are absent fields.
Rule(delayMs, failRate, corruptResponse) ==
  [delayMs |-> delayMs, failRate |-> failRate,
   corruptResponse |-> corruptResponse]
NoRule == Rule(NoValue, -1, Undefined)

QueryTools == Tools \cup {"write_file"}

\* Chaos configs; seed -1 is an absent seed.
ChaosConfig(seed, global, tools) ==
  [global |-> global,
   seed |-> seed,
   tools |-> tools]
SlowAndFlaky(seed) ==
  ChaosConfig(seed, Rule(Between(32768, 100, 200), 32768, Undefined),
              [t \in QueryTools |->
                 IF t \in Tools THEN Rule(Fixed(500), -1, "true") ELSE NoRule])
Configs == {SlowAndFlaky(1), SlowAndFlaky(-1)}

\* Values of Date.now() at the two constructions: the same millisecond, or
\* a later one for the second instance.
Clocks == {<<7, 7>>, <<7, 8>>}

\* Mutant: the seed always taken from the clock.
SeedFromClock(config, now) == now

\* this.seed = config.seed ?? Date.now()
Seed(config, now) == IF config.seed = -1 THEN now ELSE config.seed

\* getRuleForTool: { ...global, ...tools[toolName] } when the tool has a
\* rule, global otherwise.
getRuleForTool(config, toolName) ==
  LET own == config.tools[toolName]
  IN IF own = NoRule THEN config.global
     ELSE Rule(IF own.delayMs # NoValue THEN own.delayMs
               ELSE config.global.delayMs,
               IF own.failRate # -1 THEN own.failRate
               ELSE config.global.failRate,
               IF own.corruptResponse # Undefined THEN own.corruptResponse
               ELSE config.global.corruptResponse)

\* SeededRandom.nextInt, on the numerator of next().
nextInt(state, min, max) ==
  The({[state |-> r.state,
        value |-> (r.value[1] * range + (r.value[2] * range) \div Half)
                    \div Half + min] :
         r \in {SeededRandom_next(state)}, range \in {max - min + 1}})

\* resolveValue: the number (-1 for undefined) and the rng state afterwards.
resolveValue(value, state) ==
  IF value.kind = "undefined" THEN [state |-> state, value |-> -1]
  ELSE IF value.kind = "number" THEN [state |-> state, value |-> value.value]
  ELSE The({\* prob > value.p
            IF r.value[1] > value.p
                 \/ (r.value[1] = value.p /\ r.value[2] > 0)
            THEN [state |-> r.state, value |-> -1]
            ELSE IF value.value # -1
            THEN [state |-> r.state, value |-> value.value]
            ELSE IF value.min # -1 /\ value.max # -1
            THEN nextInt(r.state, value.min, value.max)
            ELSE [state |-> r.state, value |-> -1] :
              r \in {SeededRandom_next(state)}})

getDelay(config, toolName, state) ==
  The({[state |-> r.state, value |-> IF r.value = -1 THEN 0 ELSE r.value] :
         r \in {resolveValue(getRuleForTool(config, toolName).delayMs,
                             state)}})

shouldFail(config, toolName, state) ==
  The({IF rule.failRate = -1 \/ rule.failRate <= 0
       THEN [state |-> state, flag |-> FALSE]
       ELSE The({[state |-> r.state, flag |-> r.value[1] < rule.failRate] :
                   r \in {SeededRandom_next(state)}}) :
         rule \in {getRuleForTool(config, toolName)}})

shouldCorruptResponse(config, toolName) ==
  getRuleForTool(config, toolName).corruptResponse = "true"

\* What a query answers: a number, a boolean or a ChaosApplied, in one shape.
Answer(delayMs, flag) ==
  [delayMs |-> delayMs,
   seed |-> -1,
   flag |-> flag,
   errorInjected |-> FALSE,
   responseCorrupted |-> FALSE]

applyChaos(config, seed, toolName, state) ==
  The({The({[state |-> fail.state,
             value |-> [Answer(IF delay.value > 0 THEN delay.value ELSE -1,
                               FALSE)
                          EXCEPT !.seed = seed,
                                 !.errorInjected = fail.flag,
                                 !.responseCorrupted =
                                   shouldCorruptResponse(config, toolName)]] :
              fail \in {shouldFail(config, toolName, delay.state)}}) :
         delay \in {getDelay(config, toolName, state)}})

\* The queries put to the injectors: a method and its toolName.
Queries ==
  {<<"getDelay", "write_file">>, <<"shouldFail", "write_file">>,
   <<"shouldFail", "read_file">>, <<"applyChaos", "read_file">>}

\* One query put to an injector: the answer and the rng state afterwards.
Ask(inj, query, toolName) ==
  IF query = "getDelay"
  THEN The({[state |-> r.state, value |-> Answer(r.value, FALSE)] :
              r \in {getDelay(inj.config, toolName, inj.state)}})
  ELSE IF query = "shouldFail"
  THEN The({[state |-> r.state, value |-> Answer(-1, r.flag)] :
              r \in {shouldFail(inj.config, toolName, inj.state)}})
  ELSE applyChaos(inj.config, inj.seed, toolName, inj.state)

Instances == {1, 2}

NoInjector ==
  [state |-> <<0, 0>>,
   seed |-> -1,
   config |-> ChaosConfig(-1, NoRule, <<>>),
   built |-> FALSE,
   log |-> <<>>]

\* new ChaosInjector(config), for both instances, each at its own time.
NewInjectors(config, now) ==
  /\ \A i \in Instances : ~injectors[i].built
  /\ injectors' =
       [i \in Instances |->
          [state |-> <<0, Seed(config, now[i])>>,
           seed |-> Seed(config, now[i]),
           config |-> config,
           built |-> TRUE,
           log |-> <<>>]]
  /\ UNCHANGED <<journalVars, proxyVars, spawnFailed, stressVars, applied,
                 fanVars, catalogVars, rejected, wire>>

\* One query put to instance i; the log keeps the query, the rng state
\* before it, and the answer.
Query(i, query, toolName) ==
  /\ injectors[i].built
  /\ Len(injectors[i].log) < MaxQueries
  /\ \E r \in {Ask(injectors[i], query, toolName)} :
        injectors' =
          [injectors EXCEPT
             ![i].state = r.state,
             ![i].log = Append(@, [tool |-> toolName,
                                   query |-> query,
                                   before |-> injectors[i].state,
                                   answer |-> r.value])]
  /\ UNCHANGED <<journalVars, proxyVars, spawnFailed, stressVars, applied,
                 fanVars, catalogVars, rejected, wire>>

(***************************************************************************)
(* Stress runner (routes/stress: classifyOutcome, runStressTests).         *)
(***************************************************************************)
\* The message sendRequest resolves with when its timer fires.
TimeoutMessage == "Timeout waiting for response"

\* Error messages a tool server may reply with.
ValidationMessage == "Invalid argument: path must be a string"
CrashMessage == "internal server error"
PlainMessage == "not found"
ErrorMessages == {ValidationMessage, CrashMessage, PlainMessage}

\* Further messages: one in both vocabularies, one of mixed case, and the
\* message of length 0 (named, not written as a literal).
MixedMessage == "Unexpected argument"
UpperMessage == "FATAL: Killed"
EmptyMessage == "(the empty string)"
AllMessages == ErrorMessages \cup {MixedMessage, UpperMessage, EmptyMessage}

\* The patterns of the two vocabularies, by their source text.
gracefulPatterns ==
  {"invalid", "required", "missing", "type.*expected", "must be", "should be",
   "cannot be", "not allowed", "validation", "argument", "parameter",
   "property", "schema"}
crashPatterns ==
  {"crash", "segfault", "exception", "internal.*error", "unexpected", "panic",
   "fatal", "killed"}

\* The patterns (all case-insensitive) that pattern.test(error) accepts.
Accepting(error) ==
  IF error = ValidationMessage THEN {"invalid", "argument", "must be"}
  ELSE IF error = CrashMessage THEN {"internal.*error"}
  ELSE IF error = MixedMessage THEN {"unexpected", "argument"}
  ELSE IF error = UpperMessage THEN {"fatal", "killed"}
  ELSE {}

\* JS truthiness of a string | undefined.
Truthy(error) == error # Undefined /\ error # EmptyMessage

\* gracefulPatterns.some(p => p.test(error)), crashPatterns.some(...)
MatchesGraceful(error) == \E p \in gracefulPatterns : p \in Accepting(error)
MatchesCrash(error) == \E p \in crashPatterns : p \in Accepting(error)

\* Mutant: the crash vocabulary tested before the validation vocabulary.
classifyOutcomeCrashFirst(error, response, timedOut) ==
  IF timedOut THEN "crash_or_hang"
  ELSE IF ~Truthy(error) THEN "pass"
  ELSE IF MatchesCrash(error) THEN "crash_or_hang"
  ELSE "graceful_fail"

\* classifyOutcome of the stress route.
classifyOutcome(error, response, timedOut) ==
  IF timedOut THEN "crash_or_hang"
  ELSE IF ~Truthy(error) THEN "pass"
  ELSE IF MatchesGraceful(error) THEN "graceful_fail"
  ELSE IF MatchesCrash(error) THEN "crash_or_hang"
  ELSE "graceful_fail"

\* classifyOutcome of the stress command.
stressCommand_classifyOutcome(error, response, timedOut) ==
  IF timedOut THEN "crash_or_hang"
  ELSE IF ~Truthy(error) THEN "pass"
  ELSE LET isGraceful == MatchesGraceful(error)
           isCrash == MatchesCrash(error)
       IN IF isGraceful THEN "graceful_fail"
          ELSE IF isCrash THEN "crash_or_hang"
          ELSE "graceful_fail"

\* Input schemas a tools/list reply may declare for a tool: none, an object
\* schema with zero properties (generateMutations returns the valid control
\* and the extra_field mutation), or one whose "required" is not iterable
\* (generateMutations throws).
NoSchema == "none"
EmptySchema == "zero_properties"
BadSchema == "required_not_iterable"
Schemas == {NoSchema, EmptySchema, BadSchema}
MutationCount(schema) == IF schema = EmptySchema THEN 2 ELSE 0

\* The tool lists a tools/list reply may carry.
ToolLists ==
  {<<>>} \cup {<<a>> : a \in Schemas}
  \cup {<<EmptySchema, b>> : b \in {EmptySchema, BadSchema}}

\* updateStressStats: one UPDATE of the four stress columns and total_calls.
UpdateStressStats(rs, id, passed, graceful, crashed, score) ==
  [i \in DOMAIN rs |->
     IF i # id THEN rs[i]
     ELSE [rs[i] EXCEPT !.stress_passed = passed,
                        !.stress_graceful = graceful,
                        !.stress_crashed = crashed,
                        !.stress_score = score,
                        !.total_calls = passed + graceful + crashed]]

\* Math.round((goodOutcomes / total) * 100), 0 when total is 0.
Score(good, total) ==
  IF total > 0 THEN (200 * good + total) \div (2 * total) ELSE 0

\* The end of the sweep: the stats and the status update, then the finally
\* block's targetProcess.kill().
Finish(rs, id, sw) ==
  [runs |-> UpdateRunStatus(
              UpdateStressStats(rs, id, sw.passed, sw.graceful, sw.crashed,
                                Score(sw.passed + sw.graceful,
                                      sw.passed + sw.graceful + sw.crashed)),
              id, "completed", -1, -1),
   sweep |-> [sw EXCEPT !.pc = "done", !.killed = TRUE]]

\* Mutant: the kill placed at the end of the try block instead of in finally.
FailWithoutKill(rs, id, sw) ==
  [runs |-> UpdateRunStatus(rs, id, "failed", -1, -1),
   sweep |-> [sw EXCEPT !.pc = "done"]]

\* The catch block: the run is marked failed; then the finally block.
Fail(rs, id, sw) ==
  [runs |-> UpdateRunStatus(rs, id, "failed", -1, -1),
   sweep |-> [sw EXCEPT !.pc = "done", !.killed = TRUE]]

\* The for-loop over tools, from the head of sw.tools up to the next await:
\* a tool without inputSchema is skipped, generateMutations runs (and may
\* throw), and the first probe of the tool is sent.
RECURSIVE SweepLoop(_, _, _)
SweepLoop(rs, id, sw) ==
  IF sw.tools = <<>> THEN Finish(rs, id, sw)
  ELSE IF Head(sw.tools) = NoSchema
       THEN SweepLoop(rs, id, [sw EXCEPT !.tools = Tail(@)])
  ELSE IF Head(sw.tools) = BadSchema THEN Fail(rs, id, sw)
  ELSE [runs |-> rs,
        sweep |-> [sw EXCEPT !.pc = "probe",
                             !.left = MutationCount(Head(sw.tools)),
                             !.tools = Tail(@),
                             !.messageId = @ + 1]]

NewSweep(spawned) ==
  [pc |-> "initialize",
   spawned |-> spawned,
   tools |-> <<>>,
   passed |-> 0,
   graceful |-> 0,
   crashed |-> 0,
   killed |-> FALSE,
   left |-> 0,
   messageId |-> 1,
   errorPending |-> ~spawned]

\* POST /api/agents/:agentId/stress: createRun(..., 'stress'), then
\* runStressTests up to its first await (status running, spawn, the
\* initialize request sent).
StressPost(agent, spawned) ==
  /\ serverUp
  /\ StressInputs < MaxStressInputs
  /\ posted' = posted + 1
  /\ LET id == Len(runs) + 1
     IN /\ runs' = UpdateRunStatus(CreateRun(runs, events, agent, "stress"),
                                   id, "running", -1, -1)
        /\ sweeps' = sweeps @@ (id :> NewSweep(spawned))
  /\ events' = Append(events, <<>>)
  /\ UNCHANGED <<serverUp, inflight, notified, patches, proxyVars,
                 spawnFailed, resolved, applied, fanVars, catalogVars,
                 faultVars>>

\* targetProcess.on('error') in runStressTests.
StressSpawnError(id) ==
  /\ id \in DOMAIN sweeps
  /\ sweeps[id].errorPending
  /\ runs' = UpdateRunStatus(runs, id, "failed", -1, -1)
  /\ sweeps' = [sweeps EXCEPT ![id].errorPending = FALSE]
  /\ spawnFailed' = spawnFailed \cup {id}
  /\ UNCHANGED <<events, serverUp, inflight, notified, patches, posted,
                 proxyVars, resolved, applied, fanVars, catalogVars,
                 faultVars>>

\* A request of the sweep may resolve once the spawn's outcome is known; a
\* server that did not spawn never replies, so its requests time out.
MayResolve(id, awaiting, timedOut) ==
  /\ id \in DOMAIN sweeps
  /\ sweeps[id].pc = awaiting
  /\ ~sweeps[id].errorPending
  /\ sweeps[id].spawned \/ timedOut

\* The initialize request resolves (reply or timeout; the result is not
\* read): notifications/initialized is sent and the 100 ms pause starts.
StressInitialized(id, timedOut) ==
  /\ MayResolve(id, "initialize", timedOut)
  /\ resolved' = resolved + 1
  /\ sweeps' = [sweeps EXCEPT ![id].pc = "pause"]
  /\ UNCHANGED <<journalVars, proxyVars, spawnFailed, applied, fanVars,
                 catalogVars,
                 faultVars>>

\* The pause ends: the tools/list request is sent.
StressPaused(id) ==
  /\ id \in DOMAIN sweeps
  /\ sweeps[id].pc = "pause"
  /\ sweeps' = [sweeps EXCEPT ![id].pc = "tools_list", ![id].messageId = @ + 1]
  /\ UNCHANGED <<journalVars, proxyVars, spawnFailed, resolved, applied, fanVars,
                 catalogVars,
                 faultVars>>

\* The tools/list request resolves; a timeout or an error reply leaves no
\* tools.  The sweep loop then runs up to its next await.
StressToolsListed(id, tools, timedOut) ==
  /\ MayResolve(id, "tools_list", timedOut)
  /\ timedOut => tools = <<>>
  /\ resolved' = resolved + 1
  /\ LET next == SweepLoop(runs, id, [sweeps[id] EXCEPT !.tools = tools])
     IN /\ runs' = next.runs
        /\ sweeps' = [sweeps EXCEPT ![id] = next.sweep]
  /\ UNCHANGED <<events, serverUp, inflight, notified, patches, posted,
                 proxyVars, spawnFailed, applied, fanVars, catalogVars,
                 faultVars>>

\* The counters of the sweep after a probe's outcome.
Tally(sw, outcome) ==
  IF outcome = "pass" THEN [sw EXCEPT !.passed = @ + 1]
  ELSE IF outcome = "graceful_fail" THEN [sw EXCEPT !.graceful = @ + 1]
  ELSE [sw EXCEPT !.crashed = @ + 1]

\* A tools/call probe resolves: the outcome is classified, the
\* stress_mutation event inserted, the counter incremented, and the loops
\* run on to the next await.
StressProbed(id, error, timedOut) ==
  /\ MayResolve(id, "probe", timedOut)
  /\ timedOut => error = Undefined
  /\ resolved' = resolved + 1
  /\ LET message == IF timedOut THEN TimeoutMessage ELSE error
         outcome == classifyOutcome(message, Undefined, timedOut)
         sw == [Tally(sweeps[id], outcome) EXCEPT !.left = @ - 1]
         next == IF sw.left > 0
                 THEN [runs |-> runs,
                       sweep |-> [sw EXCEPT !.messageId = @ + 1]]
                 ELSE SweepLoop(runs, id, sw)
     IN /\ events' = InsertTraceEvent(events, id,
                       [Event("stress_mutation", sw.messageId) EXCEPT
                          !.outcome = outcome, !.error = message])
        /\ runs' = next.runs
        /\ sweeps' = [sweeps EXCEPT ![id] = next.sweep]
  /\ UNCHANGED <<serverUp, inflight, notified, patches, posted, proxyVars,
                 spawnFailed, applied, fanVars, catalogVars,
                 faultVars>>

(***************************************************************************)
(* Specification of the proxy with the journal and the server routes.      *)
(***************************************************************************)
\* A sweep before its first request: let messageId = 0, nothing registered.
NoWire ==
  [messageId |-> 0,
   listeners |-> {},
   timers |-> {},
   settled |-> {},
   written |-> <<>>,
   read |-> <<>>,
   results |-> <<>>]

Init ==
  /\ runs = <<>>
  /\ events = <<>>
  /\ serverUp \in BOOLEAN
  /\ inflight = {}
  /\ notified = 0
  /\ patches = 0
  /\ posted = 0
  /\ pc = "init"
  /\ exitCode = -1
  /\ runId = 0
  /\ agentId = Undefined
  /\ injector = FALSE
  /\ callCount = 0
  /\ errorCount = 0
  /\ pendingCalls = [c \in CallIds |-> NoEntry]
  /\ nIn = 0
  /\ toServer = <<>>
  /\ held = {}
  /\ targetLines = <<>>
  /\ clientOut = <<>>
  /\ spawnFailed = {}
  /\ sweeps = <<>>
  /\ resolved = 0
  /\ applied = <<>>
  /\ ws = [c \in Conns |-> "new"]
  /\ runSubscriptions = {}
  /\ agentSubscriptions = {}
  /\ globalSubscriptions = {}
  /\ sent = [c \in Conns |-> <<>>]
  /\ frames = 0
  /\ projects = {[id |-> p, name |-> "demo"] : p \in Projects}
  /\ agents = {[id |-> a,
                name |-> "fs",
                project_id |-> p] :
                 a \in Agents, p \in Projects}
  /\ formerRuns = {}
  /\ reply = NoReply
  /\ rejected = 0
  /\ injectors = [i \in Instances |-> NoInjector]
  /\ wire = NoWire

Next ==
  \/ \E a \in Agents \cup {Undefined}, inj \in BOOLEAN, ok \in BOOLEAN :
       ProxyStart(a, inj, ok)
  \/ ProxySpawnError
  \/ \E line \in ClientLines(nIn + 1), delay \in {0, 500} :
       OnStdinLine(line, delay)
  \/ \E line \in held : DelayElapsed(line)
  \/ \E line \in ServerLines(Len(targetLines) + 1) : OnTargetLine(line)
  \/ ProxyCleanup
  \/ \E code \in {0, 1} : ProxyTargetClose(code)
  \/ \E name \in Agents \cup {Undefined} : PostRun(name)
  \/ \E n \in inflight : Notify(n)

Spec == Init /\ [][Next]_vars

(***************************************************************************)
(* Specification of the stress runner with the journal and the routes.     *)
(***************************************************************************)
\* A request of a sweep resolves, within the budget of inputs.
StressResolved ==
  \/ \E id \in DOMAIN sweeps, to \in BOOLEAN : StressInitialized(id, to)
  \/ \E id \in DOMAIN sweeps, tools \in ToolLists, to \in BOOLEAN :
       StressToolsListed(id, tools, to)
  \/ \E id \in DOMAIN sweeps, e \in ErrorMessages \cup {Undefined},
        to \in BOOLEAN : StressProbed(id, e, to)

NextStress ==
  \/ \E a \in Agents, ok \in BOOLEAN : StressPost(a, ok)
  \/ \E id \in DOMAIN sweeps : StressSpawnError(id)
  \/ \E id \in DOMAIN sweeps : StressPaused(id)
  \/ StressInputs < MaxStressInputs /\ StressResolved
  \/ \E id \in DOMAIN runs, st \in Statuses, tc \in {-1, 0}, te \in {-1, 0} :
       PatchStatus(id, st, tc, te)

SpecStress == Init /\ [][NextStress]_vars

(***************************************************************************)
(* Specification of stress sweeps run to their end.  Every await of a      *)
(* sweep resolves: a reply arrives or the request's timer fires, the pause *)
(* timer fires, and a failed spawn is reported on the next tick.           *)
(***************************************************************************)
\* The replies to a probe told apart here: a result, or an error.
SweepReplies == {Undefined, CrashMessage}

SweepStep(id) ==
  \/ StressSpawnError(id)
  \/ \E to \in BOOLEAN : StressInitialized(id, to)
  \/ StressPaused(id)
  \/ \E tools \in ToolLists, to \in BOOLEAN : StressToolsListed(id, tools, to)
  \/ \E e \in SweepReplies, to \in BOOLEAN : StressProbed(id, e, to)

StartSweep ==
  /\ Cardinality(DOMAIN sweeps) < MaxSweeps
  /\ \E a \in Agents, ok \in BOOLEAN : StressPost(a, ok)

NextSweep ==
  \/ StartSweep
  \/ \E id \in DOMAIN sweeps : SweepStep(id)

SpecSweep ==
  /\ Init
  /\ [][NextSweep]_vars
  /\ \A id \in 1..MaxSweeps : WF_vars(SweepStep(id))

(***************************************************************************)
(* Specification of the fan-out: WebSocket clients subscribing while one   *)
(* proxy records a run and posts its notifications.                        *)
(***************************************************************************)
\* The client lines fed here: a tools/call request (two events).
FanLines(n) ==
  {Line(n, TRUE, <<"number", 1>>, "tools/call", t, FALSE) : t \in Tools}

NextFanOut ==
  \/ \E a \in Agents \cup {Undefined} : ProxyStart(a, FALSE, TRUE)
  \/ \E line \in FanLines(nIn + 1) : OnStdinLine(line, 0)
  \/ \E n \in inflight : Notify(n)
  \/ \E c \in Conns : WsConnect(c)
  \/ \E c \in Conns, type \in {"subscribe", "unsubscribe"}, topic \in Topics :
       OnWsMessage(c, [topic EXCEPT !.type = type])
  \/ \E c \in Conns : WsClose(c)

SpecFanOut == Init /\ [][NextFanOut]_vars

(***************************************************************************)
(* Specification of the catalog: runs recorded for the agents of a         *)
(* project, and the project's deletion.                                    *)
(***************************************************************************)
AgentIds == {a.id : a \in agents}

NextCatalog ==
  \/ \E a \in AgentIds \cup {Undefined} : ProxyStart(a, FALSE, TRUE)
  \/ \E line \in ClientLines(nIn + 1) : OnStdinLine(line, 0)
  \/ \E line \in ServerLines(Len(targetLines) + 1) : OnTargetLine(line)
  \/ ProxyCleanup
  \/ \E name \in AgentIds : PostRun(name)
  \/ \E p \in projects : DeleteProject(p.id)

SpecCatalog == Init /\ [][NextCatalog]_vars

(***************************************************************************)
(* Specification of the proxy over a journal that may reject appends.      *)
(***************************************************************************)
NextFault ==
  \/ ProxyStart(Undefined, FALSE, TRUE)
  \/ \E line \in ClientLines(nIn + 1) : OnStdinLine(line, 0)
  \/ \E line \in ServerLines(Len(targetLines) + 1) : OnTargetLine(line)
  \/ ProxyCleanup
  \/ ProxyTargetClose(0)
  \/ \E line \in ClientLines(nIn + 1), k \in {1, 2} :
       OnStdinLineRejected(line, k)
  \/ \E line \in ServerLines(Len(targetLines) + 1), k \in {1, 2} :
       OnTargetLineRejected(line, k)
  \/ ProxyEndRejected

SpecFault == Init /\ [][NextFault]_vars

(***************************************************************************)
(* Specification of the proxy's start-up next to the projects router.      *)
(***************************************************************************)
NextSetup ==
  \/ \E agent \in AgentPool \cup {Undefined},
        project \in ProjectNames \cup {Undefined},
        name \in AgentNames \cup {Undefined},
        inject \in {"none", "ok", "bad"} :
       ProxyCommand(agent, project, name, inject, TRUE)
  \/ \E line \in ClientLines(nIn + 1) : OnStdinLine(line, 0)
  \/ ProxyCleanup
  \/ \E p \in projects : DeleteProject(p.id)

SpecSetup == Init /\ [][NextSetup]_vars

(***************************************************************************)
(* Specification of the catalog's names: the projects router and the       *)
(* proxy's automatic creation over one store.                              *)
(***************************************************************************)
NextNames ==
  \/ \E project \in ProjectNames, name \in AgentNames :
       ProxyCommand(Undefined, project, name, "none", TRUE)
  \/ ProxyCleanup
  \/ \E name \in ProjectNames : PostProject(name)
  \/ \E project \in ProjectIds, name \in AgentNames : PostAgent(project, name)
  \/ \E p \in projects : DeleteProject(p.id)

SpecNames == Init /\ [][NextNames]_vars

(***************************************************************************)
(* Specification of two chaos injectors built from one config.             *)
(***************************************************************************)
NextChaos ==
  \/ \E config \in Configs, now \in Clocks :
       NewInjectors(config, now)
  \/ \E i \in Instances, q \in Queries : Query(i, q[1], q[2])

SpecChaos == Init /\ [][NextChaos]_vars

(***************************************************************************)
(* Specification of the pure functions: each step applies one of them to   *)
(* inputs drawn from its domain and records the result.                    *)
(***************************************************************************)
\* Results a reply may carry (the classifier's second argument).
Responses == {Undefined, "text"}

Apply(call) ==
  /\ Len(applied) < MaxApplied
  /\ applied' = Append(applied, call)
  /\ UNCHANGED programVars

\* One of the two classifiers applied to (error, response, timedOut).
Classify(site, error, response, timedOut) ==
  Apply([error |-> error, response |-> response, timedOut |-> timedOut,
         site |-> site, fn |-> "classifyOutcome",
         result |-> IF site = "route"
                    THEN classifyOutcome(error, response, timedOut)
                    ELSE stressCommand_classifyOutcome(error, response,
                                                       timedOut)])

NextPure ==
  \E site \in {"route", "command"}, error \in AllMessages \cup {Undefined},
     response \in Responses, timedOut \in BOOLEAN :
    Classify(site, error, response, timedOut)

SpecPure == Init /\ [][NextPure]_vars

(***************************************************************************)
(* Specification of the schema mutator: each step applies                  *)
(* generateMutations to a schema and records the mutations.                *)
(***************************************************************************)
\* A JsonSchema: properties is the sequence Object.entries gives, of pairs
\* <<field, type>>; required is the list of required field names (absent
\* properties and required read as empty).
JsonSchema(properties, required) ==
  [properties |-> properties, required |-> required]

Fields == {"path", "count"}
FieldTypes == {"string", "number", "array"}

PropertyLists ==
  {<<>>}
  \cup {<<<<f, t>>>> : f \in Fields, t \in FieldTypes}
  \cup {<<<<"path", t>>, <<"count", u>>>> : t, u \in FieldTypes}
RequiredLists == {<<>>, <<"path">>, <<"path", "count">>}
JsonSchemas ==
  {JsonSchema(ps, r) : ps \in PropertyLists, r \in RequiredLists}

Mutation(type, field) == [type |-> type, field |-> field]

MissingRequired(field) == <<Mutation("missing_required", field)>>
WrongType(entry) == <<Mutation("wrong_type", entry[1])>>
NullValue(entry) == <<Mutation("null_value", entry[1])>>
EmptyValue(entry) ==
  IF entry[2] \in {"string", "array"}
  THEN <<Mutation("empty_value", entry[1])>> ELSE <<>>
Boundary(entry) ==
  IF entry[2] \in {"string", "number", "integer"}
  THEN <<Mutation("boundary", entry[1]), Mutation("boundary", entry[1])>>
  ELSE <<>>

\* The mutations one pass of a loop of generateMutations pushes.
Pushed(loop, x) ==
  IF loop = "missing_required" THEN MissingRequired(x)
  ELSE IF loop = "wrong_type" THEN WrongType(x)
  ELSE IF loop = "null_value" THEN NullValue(x)
  ELSE IF loop = "empty_value" THEN EmptyValue(x)
  ELSE Boundary(x)

\* One for loop of generateMutations, over the required list or over
\* Object.entries(properties).
RECURSIVE ForEach(_, _)
ForEach(list, loop) ==
  IF list = <<>> THEN <<>>
  ELSE Pushed(loop, Head(list)) \o ForEach(Tail(list), loop)

\* The missing_required loop: one mutation per name of the required list.
MissingRequiredOf(schema) == ForEach(schema.required, "missing_required")

generateMutations(schema) ==
  <<Mutation("valid", Undefined)>>
  \o MissingRequiredOf(schema)
  \o ForEach(schema.properties, "wrong_type")
  \o ForEach(schema.properties, "null_value")
  \o ForEach(schema.properties, "empty_value")
  \o ForEach(schema.properties, "boundary")
  \o <<Mutation("extra_field", "_unknown_field")>>

Generate(schema) ==
  Apply([schema |-> schema,
         fn |-> "generateMutations",
         result |-> generateMutations(schema)])

NextMutations == \E schema \in JsonSchemas : Generate(schema)

SpecMutations == Init /\ [][NextMutations]_vars

(***************************************************************************)
(* Specification of the diff engine: one step applies compareTraces to a   *)
(* pair of traces and records the comparison.                              *)
(***************************************************************************)
\* A TraceCall.  params is { name, arguments } for tools/call; id is the
\* call's position in its trace.
TraceCall(method, name, arguments, result, latencyMs) ==
  [id |-> 0,
   method |-> method,
   latencyMs |-> latencyMs,
   result |-> result,
   params |-> [name |-> name, arguments |-> arguments]]

Calls ==
  {TraceCall("tools/call", "read_file", "a.txt", "r1", 0),
   TraceCall("tools/call", "read_file", "b.txt", "r1", 10),
   TraceCall("tools/call", "write_file", "a.txt", "r1", 10),
   TraceCall("tools/call", "read_file", "a.txt", "r2", 10),
   TraceCall("tools/list", Undefined, Undefined, "r1", 20)}

\* Traces: calls numbered from 1 in recording order.
Numbered(calls) == [i \in DOMAIN calls |-> [calls[i] EXCEPT !.id = i]]
Traces ==
  {Numbered(calls) : calls \in UNION {[1..n -> Calls] : n \in 0..MaxCalls}}

\* groupByMethod: the Map's keys in insertion order, and the list under a
\* key.
RECURSIVE Keys(_)
Keys(calls) ==
  IF calls = <<>> THEN <<>>
  ELSE LET rest == Keys(SubSeq(calls, 1, Len(calls) - 1))
           key == calls[Len(calls)].method
       IN IF \E i \in DOMAIN rest : rest[i] = key THEN rest
          ELSE Append(rest, key)

Group(calls, key) == SelectSeq(calls, LAMBDA call : call.method = key)

CallDiff(call) ==
  [method |-> call.method, params |-> call.params, index |-> call.id]

\* JSON.stringify(a) === JSON.stringify(b) on the model's payloads.
SameJson(a, b) == a = b

CallChange(i, b, c) ==
  [method |-> b.method, index |-> i - 1,
   baselineParams |-> b.params, currentParams |-> c.params,
   baselineResult |-> b.result, currentResult |-> c.result,
   paramsDiff |-> IF SameJson(b.params, c.params) THEN Undefined
                  ELSE "Parameters changed",
   resultDiff |-> IF SameJson(b.result, c.result) THEN Undefined
                  ELSE "Result changed"]

\* ((current - baseline) / baseline) * 100 in floating point: 0 / 0 is NaN,
\* x / 0 is Infinity for x > 0; otherwise the quotient as a fraction.
changePercent(b, c) ==
  IF b.latencyMs = 0
  THEN (IF c.latencyMs = 0 THEN <<"NaN", 0, 0>> ELSE <<"Infinity", 0, 0>>)
  ELSE <<"number", (c.latencyMs - b.latencyMs) * 100, b.latencyMs>>

Abs(x) == IF x < 0 THEN -x ELSE x

\* Mutant: the test written as !(Math.abs(latencyChange) <= 20).
NotWithinThreshold(percent) ==
  \/ percent[1] \in {"NaN", "Infinity"}
  \/ percent[1] = "number" /\ Abs(percent[2]) > 20 * percent[3]

\* Math.abs(latencyChange) > 20; every comparison with NaN is false.
OverThreshold(percent) ==
  \/ percent[1] = "Infinity"
  \/ percent[1] = "number" /\ Abs(percent[2]) > 20 * percent[3]

LatencyChange(i, b, c) ==
  [method |-> b.method,
   index |-> i - 1,
   changePercent |-> changePercent(b, c),
   baselineLatency |-> b.latencyMs,
   currentLatency |-> c.latencyMs]

\* The calls of the keys of `from` that `other` does not have, key by key.
RECURSIVE Unmatched(_, _, _)
Unmatched(keys, from, other) ==
  IF keys = <<>> THEN <<>>
  ELSE (IF Group(other, Head(keys)) = <<>>
        THEN [i \in DOMAIN Group(from, Head(keys)) |->
                CallDiff(Group(from, Head(keys))[i])]
        ELSE <<>>)
       \o Unmatched(Tail(keys), from, other)

\* The calls of `longer` past the length of `shorter`, for the keys both
\* traces have.
RECURSIVE Surplus(_, _, _)
Surplus(keys, longer, shorter) ==
  IF keys = <<>> THEN <<>>
  ELSE LET l == Group(longer, Head(keys))
           s == Group(shorter, Head(keys))
       IN (IF s # <<>> /\ Len(l) > Len(s)
           THEN [i \in 1..(Len(l) - Len(s)) |-> CallDiff(l[Len(s) + i])]
           ELSE <<>>)
          \o Surplus(Tail(keys), longer, shorter)

Min(a, b) == IF a < b THEN a ELSE b

\* The pairs the third loop compares, key by key: <<i, baseline call,
\* current call>>.
RECURSIVE Pairs(_, _, _)
Pairs(keys, baseline, current) ==
  IF keys = <<>> THEN <<>>
  ELSE LET b == Group(baseline, Head(keys))
           c == Group(current, Head(keys))
       IN [i \in 1..Min(Len(b), Len(c)) |-> <<i, b[i], c[i]>>]
          \o Pairs(Tail(keys), baseline, current)

compareTraces(baseline, current) ==
  LET pairs == Pairs(Keys(baseline), baseline, current)
      differing == SelectSeq(pairs, LAMBDA p :
                     ~SameJson(p[2].params, p[3].params)
                       \/ ~SameJson(p[2].result, p[3].result))
      slower == SelectSeq(pairs, LAMBDA p :
                  OverThreshold(changePercent(p[2], p[3])))
  IN [baselineCalls |-> Len(baseline),
      currentCalls |-> Len(current),
      added |-> Unmatched(Keys(current), current, baseline)
                  \o Surplus(Keys(baseline), current, baseline),
      removed |-> Unmatched(Keys(baseline), baseline, current)
                    \o Surplus(Keys(baseline), baseline, current),
      changed |-> [k \in DOMAIN differing |->
                     CallChange(differing[k][1], differing[k][2],
                                differing[k][3])],
      latencyChanges |-> [k \in DOMAIN slower |->
                            LatencyChange(slower[k][1], slower[k][2],
                                          slower[k][3])]]

\* diffCommand: one comparison of two loaded traces per invocation.
Compare ==
  /\ applied = <<>>
  /\ \E baseline, current \in Traces :
       applied' = <<[fn |-> "compareTraces",
                     result |-> compareTraces(baseline, current),
                     baseline |-> baseline,
                     current |-> current]>>
  /\ UNCHANGED programVars

NextDiff == Compare

SpecDiff == Init /\ [][NextDiff]_vars

(***************************************************************************)
(* sendRequest of the stress runner (the route's and the command's are the *)
(* same code): the requests of one sweep on the tool server's pipes, the   *)
(* replies the tool server writes, and the timers.                         *)
(***************************************************************************)
\* What the tool server may write on stdout: a reply with any id, carrying
\* a result or an error object whose message is absent, empty or a text.
ProbeReplies ==
  {[id |-> i, isError |-> FALSE, message |-> Undefined] : i \in 1..MaxProbes}
  \cup {[id |-> i, isError |-> TRUE, message |-> m] :
          i \in 1..MaxProbes,
          m \in {Undefined, EmptyMessage, CrashMessage, ValidationMessage}}

\* Mutant: the sweep loop without its await.
MaySendUnawaited(w) == TRUE

\* await sendRequest(...): the next request is sent when the promise of the
\* previous one has resolved, and resolve is called where the data listener
\* is removed.
MaySend(w) == w.listeners = {}

\* sendRequest up to the end of the executor: the id, the data listener,
\* the write, the timer.
Send(w) ==
  [w EXCEPT !.messageId = @ + 1,
            !.listeners = @ \cup {w.messageId + 1},
            !.written = Append(@, w.messageId + 1),
            !.timers = @ \cup {w.messageId + 1}]

\* What the promise of request k resolves with, and the outcome the sweep
\* loop derives from it.
Resolution(k, replyId, isError, error, timedOut) ==
  [id |-> k,
   outcome |-> classifyOutcome(error, Undefined, timedOut),
   error |-> error,
   isError |-> isError,
   timedOut |-> timedOut,
   replyId |-> replyId]

\* resolved = true; off('data', dataHandler); resolve(...).
Resolve(w, k, resolution) ==
  [w EXCEPT !.settled = @ \cup {k},
            !.listeners = @ \ {k},
            !.results = Append(@, resolution)]

\* Mutant: the handler without the test of the id.
MatchesAny(line, k) == TRUE

\* response.id === id
Matches(line, k) == line.id = k

\* handler(line) of request k: the reply with its id resolves it, once;
\* resolve gets response.error.message when the reply has an error object.
handler(w, k, line) ==
  IF k \in w.settled \/ ~Matches(line, k) THEN w
  ELSE Resolve([w EXCEPT !.timers = @ \ {k}], k,
               Resolution(k, line.id, line.isError,
                          IF line.isError THEN line.message ELSE Undefined,
                          FALSE))

\* stdout emits 'data': every registered dataHandler runs, in the order of
\* registration.
RECURSIVE Deliver(_, _, _)
Deliver(w, ks, line) ==
  IF ks = {} THEN w
  ELSE LET k == CHOOSE m \in ks : \A o \in ks : m <= o
       IN Deliver(handler(w, k, line), ks \ {k}, line)

\* The sweep loop sends its next request.
SendRequest ==
  /\ MaySend(wire)
  /\ wire.messageId < MaxProbes
  /\ wire' = Send(wire)
  /\ UNCHANGED <<journalVars, proxyVars, spawnFailed, stressVars, applied,
                 fanVars, catalogVars, rejected, injectors>>

\* The tool server writes a line.
OnData(line) ==
  /\ Len(wire.read) < MaxReplies
  /\ wire' = Deliver([wire EXCEPT !.read = Append(@, line.id)],
                     wire.listeners, line)
  /\ UNCHANGED <<journalVars, proxyVars, spawnFailed, stressVars, applied,
                 fanVars, catalogVars, rejected, injectors>>

\* The timer of request k fires.
OnTimeout(k) ==
  /\ k \in wire.timers
  /\ wire' = LET w == [wire EXCEPT !.timers = @ \ {k}]
             IN IF k \in w.settled THEN w
                ELSE Resolve(w, k, Resolution(k, 0, FALSE, TimeoutMessage,
                                              TRUE))
  /\ UNCHANGED <<journalVars, proxyVars, spawnFailed, stressVars, applied,
                 fanVars, catalogVars, rejected, injectors>>

NextProbe ==
  \/ SendRequest
  \/ \E line \in ProbeReplies : OnData(line)
  \/ \E k \in 1..MaxProbes : OnTimeout(k)

SpecProbe == Init /\ [][NextProbe]_vars

(***************************************************************************)
(* Specification of the proxy holding tools/call requests in chaos delays. *)
(* A timer that was set fires as long as the process lives.                *)
(***************************************************************************)
TimerFires == \E line \in held : DelayElapsed(line)

NextHold ==
  \/ \E a \in Agents \cup {Undefined}, ok \in BOOLEAN : ProxyStart(a, TRUE, ok)
  \/ ProxySpawnError
  \/ \E line \in ClientLines(nIn + 1), delay \in {0, 500} :
       OnStdinLine(line, delay)
  \/ TimerFires
  \/ ProxyCleanup
  \/ \E code \in {0, 1} : ProxyTargetClose(code)

SpecHold == Init /\ [][NextHold]_vars /\ WF_vars(TimerFires)

(***************************************************************************)
(* Specification of run creation: a proxy and the two routes that create  *)
(* runs, for two agents and requests without agent.                        *)
(***************************************************************************)
CleanupAgents == Agents \cup {"a2"}

NextCleanup ==
  \/ \E a \in CleanupAgents \cup {Undefined} : ProxyStart(a, FALSE, TRUE)
  \/ \E line \in ClientLines(nIn + 1) :
       line.method = "tools/call" /\ OnStdinLine(line, 0)
  \/ \E name \in CleanupAgents \cup {Undefined} : PostRun(name)
  \/ \E a \in CleanupAgents : StressPost(a, TRUE)

SpecCleanup == Init /\ [][NextCleanup]_vars

(***************************************************************************)
(* Properties.                                                             *)
(***************************************************************************)
Range(seq) == {seq[i] : i \in DOMAIN seq}

\* The events of a run, an event re-inserted by POST /api/notify counted once.
EventsOf(r, t) == {e \in Range(events[r]) : e.t = t}

ProxyRuns == IF runId = 0 THEN {} ELSE {runId}
Terminal == {"completed", "failed"}

\* C1: the lines written to the tool server's stdin are in the order in which
\* they were read from the client's stdin.
C1_ClientOrderPreserved ==
  \A i, j \in DOMAIN toServer : i < j => toServer[i].n < toServer[j].n

C3_AtMostOneResponsePerRequest ==
  \A r \in ProxyRuns : \A q \in EventsOf(r, "rpc_request") :
    q.id # NoId =>
      Cardinality({e \in EventsOf(r, "rpc_response") : e.id = q.id}) <= 1

\* C4: in a proxy run, the rpc_request events that carry an id are at least
\* as many as the rpc_response events that carry an id.
C4_RequestsAtLeastResponses ==
  \A r \in ProxyRuns :
    Cardinality({e \in EventsOf(r, "rpc_request") : e.id # NoId})
      >= Cardinality({e \in EventsOf(r, "rpc_response") : e.id # NoId})

\* C5: every tool_result event of a run has an earlier tool_call event of
\* the same run with the same callId.
C5_ToolResultHasEarlierToolCall ==
  \A r \in DOMAIN events : \A j \in DOMAIN events[r] :
    events[r][j].t = "tool_result" =>
      \E i \in 1..(j - 1) :
        /\ events[r][i].t = "tool_call"
        /\ events[r][i].callId = events[r][j].callId

\* C5 witness: a tool_result has been journaled for a callId that two
\* requests used (the id was reused before the reply came).
C5_Witness ==
  \E r \in DOMAIN events : \E j \in DOMAIN events[r] :
    /\ events[r][j].t = "tool_result"
    /\ Cardinality({i \in 1..(j - 1) :
                      /\ events[r][i].t = "rpc_request"
                      /\ String(events[r][i].id) = events[r][j].callId}) >= 2

\* C6: a run's status never moves to an earlier status, and a completed or
\* failed run never changes status.
StatusRank(st) ==
  IF st = "pending" THEN 0 ELSE IF st = "running" THEN 1 ELSE 2

C6_StatusMonotonic ==
  [][\A r \in DOMAIN runs :
       /\ StatusRank(runs'[r].status) >= StatusRank(runs[r].status)
       /\ runs[r].status \in Terminal => runs'[r].status = runs[r].status]_vars

\* C7: a run whose tool server failed to spawn is in status failed from the
\* handling of the spawn error on.
C7_SpawnFailureEndsFailed ==
  \A r \in spawnFailed : runs[r].status = "failed"

\* C8: once the proxy has exited after a shutdown trigger, its run's first
\* event is session_start, exactly one session_end is journaled and it is
\* the run's last event, and the run is completed with the counters that
\* session_end carries.
C8_EndOfRunOnce ==
  (pc = "exited" /\ runId \notin spawnFailed) =>
    LET evs == events[runId]
        last == evs[Len(evs)]
    IN /\ evs[1].t = "session_start"
       /\ CountType(evs, "session_end") = 1
       /\ last.t = "session_end"
       /\ runs[runId].status = "completed"
       /\ runs[runId].total_calls = last.totalCalls
       /\ runs[runId].total_errors = last.totalErrors

\* C9: a proxy run in a terminal status stores a total_calls equal to the
\* number of its tool_call events, and its session_end event carries the
\* stored total_calls and total_errors.
C9_CountersMatchEvents ==
  \A r \in ProxyRuns :
    runs[r].status \in Terminal =>
      /\ runs[r].total_calls = CountType(events[r], "tool_call")
      /\ \A e \in EventsOf(r, "session_end") :
           /\ e.totalCalls = runs[r].total_calls
           /\ e.totalErrors = runs[r].total_errors

\* C10: a stress run in a terminal status has stress_passed +
\* stress_graceful + stress_crashed equal to the number of its
\* stress_mutation events.
C10_StressCountersMatchEvents ==
  \A r \in DOMAIN sweeps :
    runs[r].status \in Terminal =>
      runs[r].stress_passed + runs[r].stress_graceful + runs[r].stress_crashed
        = CountType(events[r], "stress_mutation")

\* C11: every stress sweep terminates: each of its requests resolves by a
\* reply or by its timeout, a timed-out probe is recorded as crash_or_hang,
\* and the sweep ends with its run completed or failed and the tool server
\* killed.
C11_SweepTerminates ==
  /\ [](\A r \in DOMAIN sweeps : \A e \in Range(events[r]) :
         e.error = TimeoutMessage => e.outcome = "crash_or_hang")
  /\ \A id \in 1..MaxSweeps :
       [](id \in DOMAIN sweeps =>
            <>(/\ id \in DOMAIN sweeps
               /\ sweeps[id].pc = "done"
               /\ sweeps[id].killed
               /\ runs[id].status \in Terminal))

\* C11 witness: a sweep has ended with the server killed after a probe that
\* timed out and was followed by a further probe.
C11_Witness ==
  \E r \in DOMAIN sweeps :
    /\ sweeps[r].pc = "done"
    /\ sweeps[r].killed
    /\ \E i, j \in DOMAIN events[r] :
         /\ i < j
         /\ events[r][i].error = TimeoutMessage
         /\ events[r][j].t = "stress_mutation"

\* C12: classifyOutcome applies its rules in a fixed precedence: a timeout
\* gives crash_or_hang whatever the error; else no error gives pass whatever
\* the response; else a match of the validation vocabulary gives
\* graceful_fail even with a match of the crash vocabulary; else a match of
\* the crash vocabulary gives crash_or_hang; else graceful_fail.  The
\* classifier of the stress command and the one of the stress route agree.
Classified == {a \in Range(applied) : a.fn = "classifyOutcome"}

C12_ClassifierPrecedence ==
  /\ \A a \in Classified :
       LET validation == gracefulPatterns \cap Accepting(a.error) # {}
           crash == crashPatterns \cap Accepting(a.error) # {}
       IN /\ a.timedOut => a.result = "crash_or_hang"
          /\ ~a.timedOut /\ ~Truthy(a.error) => a.result = "pass"
          /\ ~a.timedOut /\ Truthy(a.error) /\ validation
               => a.result = "graceful_fail"
          /\ ~a.timedOut /\ Truthy(a.error) /\ ~validation /\ crash
               => a.result = "crash_or_hang"
          /\ ~a.timedOut /\ Truthy(a.error) /\ ~validation /\ ~crash
               => a.result = "graceful_fail"
  /\ \A a, b \in Classified :
       (a.error = b.error /\ a.response = b.response
          /\ a.timedOut = b.timedOut) => a.result = b.result

\* C12 witness: both classifiers have been applied, without timeout, to a
\* message that matches both vocabularies.
C12_Witness ==
  \E a, b \in Classified :
    /\ a.site = "route" /\ b.site = "command"
    /\ a.error = MixedMessage /\ b.error = MixedMessage
    /\ ~a.timedOut /\ ~b.timedOut

\* C13: every write to the journal (an event inserted, a run created, a
\* status transition) is followed by a fan-out broadcast of that write: the
\* step that writes posts a notification to the server or broadcasts.
C13_WritesAreBroadcast ==
  [][(serverUp /\ (events' # events \/ runs' # runs))
       => (inflight' \ inflight # {} \/ notified' # notified)]_vars

\* C14: on a topic, messages reach a subscriber in the order in which the
\* journal took the writes: the event notifications of a run are sent to a
\* connection in the order the recorder inserted the events.
FirstIndex(evs, e) ==
  CHOOSE i \in DOMAIN evs : evs[i] = e /\ \A k \in 1..(i - 1) : evs[k] # e

C14_BroadcastInWriteOrder ==
  \A c \in Conns : \A i, j \in DOMAIN sent[c] :
    (/\ i < j
     /\ sent[c][i].type = "event" /\ sent[c][j].type = "event"
     /\ sent[c][i].runId = sent[c][j].runId)
      => FirstIndex(events[sent[c][i].runId], sent[c][i].event)
           <= FirstIndex(events[sent[c][j].runId], sent[c][j].event)

\* C15: a notification is sent at most once to a connection, whatever mix
\* of subscriptions the connection holds.
Acks == {"subscribed", "unsubscribed"}

C15_AtMostOncePerConnection ==
  \A c \in Conns : \A i, j \in DOMAIN sent[c] :
    (i < j /\ sent[c][i].type \notin Acks) => sent[c][i] # sent[c][j]

\* C16: a notification sent to a connection is covered by a subscription the
\* connection holds at that moment: global, or run/<id> with the message's
\* run id, or agent/<id> with the message's agent id and then only for
\* run_created and run_updated messages.
Received(c) ==
  {sent'[c][i] : i \in (Len(sent[c]) + 1)..Len(sent'[c])}

C16_TopicScoping ==
  [][\A c \in Conns : \A m \in Received(c) :
       m.type \notin Acks =>
         \/ c \in globalSubscriptions
         \/ <<m.runId, c>> \in runSubscriptions
         \/ /\ <<m.agentId, c>> \in agentSubscriptions
            /\ m.type \in {"run_created", "run_updated"}]_vars

\* C17: after a project is deleted, none of its agents, none of those
\* agents' runs and none of those runs' events exist.
C17_CascadeDelete ==
  /\ \A a \in agents : a.project_id \in {p.id : p \in projects}
  /\ \A r \in formerRuns : r \notin DOMAIN runs /\ events[r] = <<>>

\* The line read from the tool server in this step, and the one read from
\* the client (it is written on, or held in the chaos delay).
TargetRead ==
  IF Len(targetLines') = Len(targetLines) + 1
  THEN {targetLines'[Len(targetLines')]} ELSE {}
StdinRead ==
  IF nIn' = nIn + 1
  THEN {l \in Range(toServer') \cup held' : l.n = nIn'} ELSE {}

\* The journal rows the step appended to the proxy's run.
Journaled ==
  IF runId = 0 THEN <<>>
  ELSE SubSeq(events'[runId], Len(events[runId]) + 1, Len(events'[runId]))

\* C18: a server reply whose id is not in flight is forwarded to the client
\* and journaled as one rpc_response without latency; it produces no
\* tool_result, changes no counter, leaves the in-flight table as it was and
\* leaves the run's row as it was.
C18_CorrelationMiss ==
  [][\A line \in TargetRead :
       (line.json /\ line.id # NoId /\ ~Matched(pendingCalls, line.id).present)
         => /\ clientOut' = Append(clientOut, line)
            /\ Len(Journaled) = 1
            /\ Journaled[1].t = "rpc_response"
            /\ Journaled[1].id = line.id
            /\ Journaled[1].latencyMs = -1
            /\ UNCHANGED <<callCount, errorCount, pendingCalls, runs, pc>>]_vars

\* C18 witness: a reply to an id already answered has been journaled without
\* latency after the reply that was matched, and the run is still running.
C18_Witness ==
  /\ pc = "running"
  /\ runs[runId].status = "running"
  /\ \E i, j \in DOMAIN events[runId] :
       /\ i < j
       /\ events[runId][i].t = "rpc_response"
       /\ events[runId][i].latencyMs # -1
       /\ events[runId][j].t = "rpc_response"
       /\ events[runId][j].id = events[runId][i].id
       /\ events[runId][j].latencyMs = -1
       /\ Len(clientOut) = 2

\* C19: a line that does not parse as JSON, on either channel, is written to
\* the peer unchanged exactly once, adds no journal event, leaves the
\* in-flight table and the counters as they were and does not end the run.
C19_NonJsonForwardedVerbatim ==
  [][/\ \A line \in StdinRead :
          ~line.json
            => /\ toServer' = Append(toServer, line)
               /\ UNCHANGED <<events, callCount, errorCount, pendingCalls,
                              runs, pc, clientOut>>
     /\ \A line \in TargetRead :
          ~line.json
            => /\ clientOut' = Append(clientOut, line)
               /\ UNCHANGED <<events, callCount, errorCount, pendingCalls,
                              runs, pc, toServer>>]_vars

\* C19 witness: with an injector returning delays, a line that is not JSON
\* has passed in each direction and nothing but session_start is journaled.
C19_Witness ==
  /\ pc = "running"
  /\ injector
  /\ \E i \in DOMAIN toServer : ~toServer[i].json
  /\ \E i \in DOMAIN clientOut : ~clientOut[i].json
  /\ Len(events[runId]) = 1

\* C20: every line that parses as a JSON object, on either channel, adds at
\* least one journal event: an rpc_request when the object carries a method,
\* an rpc_response when it does not.
JournaledTypes == {Journaled[i].t : i \in DOMAIN Journaled}

C20_EveryMessageJournaled ==
  [][\A line \in StdinRead \cup TargetRead :
       line.json =>
         IF line.method # Undefined
         THEN "rpc_request" \in JournaledTypes
         ELSE "rpc_response" \in JournaledTypes]_vars

\* C21: once the journal has rejected an append of the proxy's run, the
\* proxy has exited and the run's status is failed.
C21_JournalWriteErrorEndsRun ==
  rejected > 0 => pc = "exited" /\ runs[runId].status = "failed"

\* C22: a start-up of the proxy that ends in an exit before the recorder
\* exists (the chaos config could not be loaded or parsed) exits nonzero and
\* leaves projects, agents, runs and events as they were.
C22_ConfigErrorCreatesNothing ==
  [][(pc = "init" /\ pc' = "exited")
       => /\ exitCode' # 0
          /\ UNCHANGED <<projects, agents, runs, events>>]_vars

\* C26: a create request for a project name that exists, or for an agent
\* name that exists in its project, is answered with a conflict and leaves
\* the store as it was; project names are unique and agent names are unique
\* within their project in every state.
C26_NamesUnique ==
  /\ [](/\ \A p, q \in projects : p.name = q.name => p = q
        /\ \A a, b \in agents :
             (a.project_id = b.project_id /\ a.name = b.name) => a = b)
  /\ [][reply'.n # reply.n =>
         /\ (/\ reply'.op = "create_project"
             /\ \E q \in projects : q.name = reply'.name)
              => reply'.code = 409 /\ UNCHANGED <<projects, agents>>
         /\ (/\ reply'.op = "create_agent"
             /\ \E a \in agents : /\ a.project_id = reply'.project
                                   /\ a.name = reply'.name)
              => reply'.code = 409 /\ UNCHANGED <<projects, agents>>]_vars

\* C26 witness: both kinds of create request have been refused with a
\* conflict after a project was created and one was deleted.
C26_Witness ==
  /\ reply.code = 409
  /\ reply.op = "create_agent"
  /\ Cardinality(projects) = 2

\* rpc_request rows of the proxy's run whose id gives the key callId.
RequestsWithKey(callId) ==
  {i \in DOMAIN events[runId] :
     /\ events[runId][i].t = "rpc_request"
     /\ String(events[runId][i].id) = callId}

\* C23: the rpc_response journaled for a tools/call request the proxy
\* delayed by d ms carries a chaos descriptor with the seed and delayMs = d.
\* Stated for the requests whose id no other request of the run used, so
\* that the reply's request is not in doubt.
C23_ResponseCarriesChaos ==
  runId # 0 =>
    \A l \in Range(toServer) \cup held :
      (l.delayMs > 0 /\ Cardinality(RequestsWithKey(String(l.id))) = 1)
        => \A e \in Range(events[runId]) :
             (/\ e.t = "rpc_response"
              /\ String(e.id) = String(l.id)
              /\ e.latencyMs # -1)
               => e.chaosSeed /\ e.chaosDelayMs = l.delayMs

\* The queries of a log, without their answers.
Asked(log) == [k \in DOMAIN log |-> <<log[k].query, log[k].tool>>]
Answers(log) == [k \in DOMAIN log |-> log[k].answer]

\* C24: two injectors built from the same config with an explicit seed give
\* the same answers for as long as they are asked the same queries, and the
\* answer to a query depends on earlier queries only through the state of
\* the generator.
C24_ChaosDeterminism ==
  (/\ \A i \in Instances : injectors[i].built
   /\ injectors[1].config.seed # -1)
    => /\ \A n \in 0..MaxQueries :
            (/\ n <= Len(injectors[1].log)
             /\ n <= Len(injectors[2].log)
             /\ SubSeq(Asked(injectors[1].log), 1, n)
                  = SubSeq(Asked(injectors[2].log), 1, n))
              => SubSeq(Answers(injectors[1].log), 1, n)
                   = SubSeq(Answers(injectors[2].log), 1, n)
       /\ \A i, j \in Instances :
            \A e \in Range(injectors[i].log), f \in Range(injectors[j].log) :
              (e.query = f.query /\ e.tool = f.tool /\ e.before = f.before)
                => e.answer = f.answer

\* C24 witness: both injectors, seeded explicitly, were asked the same two
\* queries of a tool with a probabilistic delay, and the second answer is a
\* delay drawn from the range.
C24_Witness ==
  /\ \A i \in Instances : injectors[i].built
  /\ injectors[1].config.seed # -1
  /\ Len(injectors[1].log) = 2
  /\ Asked(injectors[1].log) = Asked(injectors[2].log)
  /\ injectors[1].log[1].tool = "write_file"
  /\ injectors[1].log[2].answer.delayMs > 50
  /\ injectors[2].log[2].answer.delayMs > 50

\* C27: for a schema that declares zero properties generateMutations returns
\* exactly two mutations, valid then extra_field, whatever its required
\* list contains.
C27_ZeroPropertiesTwoMutations ==
  \A call \in Range(applied) :
    (call.fn = "generateMutations" /\ call.schema.properties = <<>>)
      => /\ Len(call.result) = 2
         /\ call.result[1].type = "valid"
         /\ call.result[2].type = "extra_field"

\* The calls of a trace to one tool, in order.
CallsOfTool(trace, tool) ==
  SelectSeq(trace, LAMBDA call : call.params.name = tool)

ToolsOf(trace) == {trace[i].params.name : i \in DOMAIN trace}

\* C28: the diff pairs the i-th baseline call of a tool with the i-th
\* current call of the same tool, emits a changed entry exactly for the
\* pairs whose argument payloads differ, and turns the calls beyond the
\* shorter list of a tool into added or removed.
C28_DiffGroupsByTool ==
  \A call \in Range(applied) :
    call.fn = "compareTraces" =>
      LET b == call.baseline
          c == call.current
          r == call.result
          tools == ToolsOf(b) \cup ToolsOf(c)
          paired == {<<t, i>> \in tools \X (1..MaxCalls) :
                       /\ i <= Len(CallsOfTool(b, t))
                       /\ i <= Len(CallsOfTool(c, t))}
          differing == {p \in paired :
                          CallsOfTool(b, p[1])[p[2]].params.arguments
                            # CallsOfTool(c, p[1])[p[2]].params.arguments}
          surplus(x, y) ==
            {<<t, i>> \in tools \X (1..MaxCalls) :
               /\ i <= Len(CallsOfTool(x, t))
               /\ i > Len(CallsOfTool(y, t))}
      IN /\ \A e \in Range(r.changed) :
              /\ e.baselineParams.name = e.currentParams.name
              /\ e.baselineParams.arguments # e.currentParams.arguments
         /\ Len(r.changed) = Cardinality(differing)
         /\ Len(r.added) = Cardinality(surplus(c, b))
         /\ Len(r.removed) = Cardinality(surplus(b, c))

\* C29: the diff of a trace with itself has empty added, removed, changed
\* and latency-change lists.
C29_SelfDiffEmpty ==
  \A call \in Range(applied) :
    (call.fn = "compareTraces" /\ call.baseline = call.current)
      => /\ call.result.added = <<>>
         /\ call.result.removed = <<>>
         /\ call.result.changed = <<>>
         /\ call.result.latencyChanges = <<>>

\* C29 witness: a trace of two calls, one of them with latency 0, has been
\* diffed with itself.
C29_Witness ==
  \E call \in Range(applied) :
    /\ call.fn = "compareTraces"
    /\ call.baseline = call.current
    /\ Len(call.baseline) = 2
    /\ \E i \in DOMAIN call.baseline : call.baseline[i].latencyMs = 0
    /\ call.result.baselineCalls = 2

\* C25: every completed run has a start time and an end time, and every
\* pending run has neither.
C25_RunTimestampsFollowStatus ==
  \A id \in DOMAIN runs :
    /\ runs[id].status = "completed"
         => runs[id].started_at # NULL /\ runs[id].ended_at # NULL
    /\ runs[id].status = "pending"
         => runs[id].started_at = NULL /\ runs[id].ended_at = NULL

\* The time of the latest rpc_request of the proxy's run with the key callId.
LatestRequest(callId) ==
  CHOOSE ts \in {events[runId][i].ts : i \in RequestsWithKey(callId)} :
    \A i \in RequestsWithKey(callId) : events[runId][i].ts <= ts

\* C30: a request with an id sets the one in-flight entry of its stringified
\* id to its own start time and tool name, whether or not an entry was there;
\* a reply whose id is in flight is timed against the latest request with
\* that id and removes the entry, so that an earlier request with the same
\* id is paired with no reply.
C30_SecondRequestReplaces ==
  [][/\ \A line \in StdinRead :
          (line.json /\ line.method # Undefined /\ line.id # NoId)
            => pendingCalls'
                 = [pendingCalls EXCEPT ![String(line.id)] =
                      [tool |-> IF line.method = "tools/call" THEN line.name
                           ELSE Undefined,
                       present |-> TRUE,
                       startTime |-> nIn' + Len(targetLines')]]
     /\ \A line \in TargetRead :
          (line.json /\ line.id # NoId /\ pendingCalls[String(line.id)].present)
            => /\ RequestsWithKey(String(line.id)) # {}
               /\ Len(Journaled) >= 1
               /\ Journaled[Len(Journaled)].t = "rpc_response"
               /\ Journaled[Len(Journaled)].latencyMs
                    = nIn' + Len(targetLines')
                        - LatestRequest(String(line.id))
               /\ pendingCalls'
                    = [pendingCalls EXCEPT ![String(line.id)] = NoEntry]]_vars

\* C30 witness: two requests with the same key were recorded at different
\* times, a reply with that key was then timed against the second, and the
\* entry is gone.
C30_Witness ==
  /\ runId # 0
  /\ \E i, j, k \in DOMAIN events[runId] :
       /\ i < j /\ j < k
       /\ events[runId][i].t = "rpc_request"
       /\ events[runId][j].t = "rpc_request"
       /\ events[runId][i].id # NoId
       /\ String(events[runId][i].id) = String(events[runId][j].id)
       /\ events[runId][i].ts < events[runId][j].ts
       /\ events[runId][k].t = "rpc_response"
       /\ String(events[runId][k].id) = String(events[runId][i].id)
       /\ events[runId][k].latencyMs = events[runId][k].ts - events[runId][j].ts
       /\ ~pendingCalls[String(events[runId][i].id)].present

\* C31: a step that creates a run completes the running runs of the new
\* run's agent and kind (status completed, ended_at set, total_calls the
\* number of their tool_call events) and leaves every other run as it was;
\* a run created without agent changes no run.
C31_StaleCleanupScoped ==
  [][Len(runs') = Len(runs) + 1 =>
       LET new == runs'[Len(runs')]
       IN \A i \in DOMAIN runs :
            IF /\ new.agent_id # NULL
               /\ runs[i].agent_id = new.agent_id
               /\ runs[i].run_type = new.run_type
               /\ runs[i].status = "running"
            THEN runs'[i] = [runs[i] EXCEPT
                               !.status = "completed",
                               !.ended_at = "ts",
                               !.total_calls =
                                 CountType(events[i], "tool_call")]
            ELSE runs'[i] = runs[i]]_vars

\* C31 witness: a run created for an agent has completed that agent's
\* running run of the same kind, with its one tool call counted, while the
\* agent's running run of the other kind is still running.
C31_Witness ==
  \E i, j, n \in DOMAIN runs :
    /\ i < n /\ j < n
    /\ runs[n].agent_id # NULL
    /\ runs[i].agent_id = runs[n].agent_id
    /\ runs[i].run_type = runs[n].run_type
    /\ runs[i].status = "completed"
    /\ runs[i].total_calls = 1
    /\ CountType(events[i], "tool_call") = 1
    /\ runs[j].agent_id = runs[n].agent_id
    /\ runs[j].run_type # runs[n].run_type
    /\ runs[j].status = "running"

\* The lines the step wrote to the tool server.
ServerWritten ==
  IF Len(toServer') = Len(toServer) + 1
  THEN {toServer'[Len(toServer')]} ELSE {}

\* C32: when a journaled line is written to its peer the events derived
\* from it are in the journal: rpc_request, and tool_call for a tools/call
\* with an id and a tool name, when a client line is written to the tool
\* server; rpc_response, after the tool_result of a matched tool call, when
\* a server line is written to the client.
C32_JournaledBeforeForwarded ==
  [][/\ \A line \in ServerWritten :
          (line.json /\ line.method # Undefined)
            => /\ \E e \in Range(events'[runId]) :
                    /\ e.t = "rpc_request"
                    /\ e.id = line.id
                    /\ e.method = line.method
               /\ (line.method = "tools/call" /\ line.id # NoId)
                    => \E e \in Range(events'[runId]) :
                         /\ e.t = "tool_call"
                         /\ e.callId = String(line.id)
                         /\ e.tool = line.name
     /\ \A line \in TargetRead :
          (line.json /\ line.id # NoId)
            => /\ clientOut' = Append(clientOut, line)
               /\ Len(Journaled) >= 1
               /\ Journaled[Len(Journaled)].t = "rpc_response"
               /\ Journaled[Len(Journaled)].id = line.id
               /\ Matched(pendingCalls, line.id).tool # Undefined
                    => /\ Len(Journaled) = 2
                       /\ Journaled[1].t = "tool_result"
                       /\ Journaled[1].callId = String(line.id)]_vars

\* C32 witness: a tools/call request is held in the chaos delay, not yet
\* written to the tool server, and its rpc_request and tool_call are in the
\* journal; an earlier request has been written on.
C32_Witness ==
  /\ pc = "running"
  /\ Len(toServer) = 1
  /\ \E line \in held :
       /\ \A i \in DOMAIN toServer : toServer[i].n # line.n
       /\ \E e \in Range(events[runId]) :
            e.t = "rpc_request" /\ e.id = line.id /\ e.ts = line.n
       /\ \E e \in Range(events[runId]) :
            e.t = "tool_call" /\ e.callId = String(line.id) /\ e.ts = line.n

\* Requests of the sweep that were written and whose promise is pending.
Awaiting == {k \in Range(wire.written) : k \notin wire.settled}

\* C33: the probes of a stress run are strictly sequential: at most one
\* request awaits its reply at any time, the ids written to the tool server
\* increase strictly, and a request is written only when every request
\* written before it has resolved.
C33_ProbesSequential ==
  /\ [](/\ Cardinality(Awaiting) <= 1
        /\ Cardinality(wire.listeners) <= 1
        /\ \A i, j \in DOMAIN wire.written :
             i < j => wire.written[i] < wire.written[j])
  /\ [][Len(wire.written') > Len(wire.written) =>
          /\ Awaiting = {}
          /\ Len(wire.written') = Len(wire.written) + 1
          /\ Len(wire.results) = Len(wire.written)]_vars

C33_Witness ==
  /\ wire.written = <<1, 2, 3>>
  /\ Awaiting = {3}
  /\ Len(wire.results) = 2
  /\ wire.results[1].timedOut
  /\ ~wire.results[2].timedOut

\* C38: a reply resolves only the probe whose id it carries, and each probe
\* resolves once: the recorded resolutions only grow, one at a time, each
\* for a pending probe, by its timer or by a line read at that step with
\* the probe's own id; a line for a probe that is settled, and a timer of a
\* probe that is settled, record nothing.
C38_ReplyAttributedOnce ==
  /\ [](\A i, j \in DOMAIN wire.results :
          wire.results[i].id = wire.results[j].id => i = j)
  /\ [][/\ Len(wire.results') \in {Len(wire.results), Len(wire.results) + 1}
        /\ SubSeq(wire.results', 1, Len(wire.results)) = wire.results
        /\ Len(wire.results') > Len(wire.results) =>
             LET r == wire.results'[Len(wire.results')]
             IN /\ r.id \in Awaiting
                /\ r.id \notin wire.settled
                /\ \/ r.timedOut /\ r.id \in wire.timers /\ wire.read' = wire.read
                   \/ /\ ~r.timedOut
                      /\ r.replyId = r.id
                      /\ wire.read' = Append(wire.read, r.id)
        /\ (/\ Len(wire.read') > Len(wire.read)
            /\ wire.read'[Len(wire.read')] \notin Awaiting)
             => wire.results' = wire.results]_vars

\* The reply of probe 1 came after its timer, and probe 2 was answered.
C38_Witness ==
  /\ wire.written = <<1, 2>>
  /\ wire.read = <<1, 2>>
  /\ Len(wire.results) = 2
  /\ wire.results[1].id = 1 /\ wire.results[1].timedOut
  /\ wire.results[2].id = 2 /\ wire.results[2].replyId = 2

\* C40: a probe whose reply carried an error object is never classified
\* pass, whatever the message of the error object, missing and empty
\* included.
C40_ErrorReplyNeverPass ==
  \A i \in DOMAIN wire.results :
    wire.results[i].isError => wire.results[i].outcome # "pass"

\* The rng state an injector had after its k-th query.
StateAfter(inj, k) ==
  IF k < Len(inj.log) THEN inj.log[k + 1].before ELSE inj.state

\* The queries that involve a probabilistic value: getDelay of a tool whose
\* delayMs is a ProbabilisticValue, shouldFail of a tool with a failRate.
Probabilistic(inj, e) ==
  \/ /\ e.query = "getDelay"
     /\ getRuleForTool(inj.config, e.tool).delayMs.kind = "probabilistic"
  \/ /\ e.query = "shouldFail"
     /\ getRuleForTool(inj.config, e.tool).failRate > 0

\* C34: every getDelay or shouldFail query that involves a probabilistic
\* value advances the generator by exactly one draw, whether or not the
\* event occurs and whether the value is fixed or a range.
C34_OneDrawPerDecision ==
  \A i \in Instances :
    \A k \in DOMAIN injectors[i].log :
      Probabilistic(injectors[i], injectors[i].log[k])
        => StateAfter(injectors[i], k)
             = SeededRandom_next(injectors[i].log[k].before).state

\* C35: an event the recorder inserted and then posted to the notification
\* endpoint is in the run's events once: no run holds the same event in two
\* rows.
C35_EventStoredOnce ==
  \A id \in DOMAIN events :
    \A i, j \in DOMAIN events[id] :
      events[id][i] = events[id][j] => i = j

\* C36: no event is appended to a run after the run reached a terminal
\* status, stale cleanup by a newer run of the same agent and kind included.
C36_NoEventAfterTerminal ==
  [][\A id \in DOMAIN events :
       runs[id].status \in {"completed", "failed"}
         => events'[id] = events[id]]_vars

\* The rows of type t in evs that carry the correlation id c.
CountCall(evs, t, c) ==
  Cardinality({i \in DOMAIN evs : evs[i].t = t /\ evs[i].callId = c})

\* C37: for each correlation id a run has at most as many tool_result
\* events as tool_call events, and a reply whose id has no entry in the
\* in-flight table, an already answered id included, adds no tool_result
\* and increments neither counter.
C37_ResultsWithinCalls ==
  /\ [](\A id \in DOMAIN events, c \in CallIds :
          CountCall(events[id], "tool_result", c)
            <= CountCall(events[id], "tool_call", c))
  /\ [][\A line \in TargetRead :
          (line.json /\ line.id # NoId
             /\ ~Matched(pendingCalls, line.id).present)
            => /\ \A c \in CallIds :
                    CountCall(events'[runId], "tool_result", c)
                      = CountCall(events[runId], "tool_result", c)
               /\ UNCHANGED <<callCount, errorCount>>]_vars

\* The n-th client line was journaled as rpc_request (no server line is read
\* under SpecHold, so the recorder's clock is the line's number).
JournaledRequest(n) ==
  /\ runId # 0
  /\ \E e \in Range(events[runId]) : e.t = "rpc_request" /\ e.ts = n

\* The n-th client line was written to the tool server's stdin.
WrittenToServer(n) == \E i \in DOMAIN toServer : toServer[i].n = n

\* C39: every client request journaled as rpc_request is eventually written
\* to the tool server, a tools/call held by a chaos delay when the client
\* closes stdin or a signal arrives included.
C39_JournaledEventuallyWritten ==
  \A n \in 1..MaxInputs : [](JournaledRequest(n) => <>WrittenToServer(n))

====
